---- MODULE Spec2Model ----
(***************************************************************************)
(* The file-processing core of yubiage_ui: AgeWorker.run in its three      *)
(* variants (ageyubi.py, ageyub_ui.py, yubiage_ui.py), the file system it  *)
(* works on and the external age tool it drives (Spec), and the window     *)
(* AgeGUI whose handlers start the workers (GuiSpec).                      *)
(*                                                                         *)
(* Strings are sequences of one-character strings, so that suffix tests,   *)
(* lower-casing, splitext and the ' (n)' pattern are computed, not assumed.*)
(* A path is a record [dir, name]: os.path.dirname / basename / join.      *)
(* A file's content is a sequence of lines, each line a string.            *)
(***************************************************************************)
EXTENDS Integers, Sequences, FiniteSets, TLC

VARIABLES
    variant,        \* which of the three programs runs
    fs,             \* the file system: existing path -> [kind, data]
    pc,             \* position of AgeWorker.run: idle, pre, loop, cleanup, done
    mode,           \* AgeWorker.mode
    files_to_process,       \* AgeWorker.files_to_process
    recipients_keys,        \* AgeWorker.recipients_keys
    processed_files,        \* run: processed_files
    file_map,               \* run: file_map, input path -> original path
    temp_files_to_cleanup,  \* AgeWorker.temp_files_to_cleanup
    idx,            \* run: next position of a loop (pre-processing or per-file)
    success_count,  \* run: success_count
    total_files,    \* run: total_files
    events,         \* the signals the current worker has emitted, in order
    items,          \* history: one record per work item the loop has finished
    preFailed,      \* history: the outer handler of run caught an exception
    created,        \* history: archives _create_tar_archive completed
    rmFailed,       \* history: paths whose os.remove raised (swallowed)
    encOf,          \* history: encrypted output -> content it was made from
    handed,         \* number of work items handed to workers so far
    gui             \* the fields of AgeGUI and the state of its widgets

vars == <<variant, fs, pc, mode, files_to_process, recipients_keys,
          processed_files, file_map, temp_files_to_cleanup, idx,
          success_count, total_files, events, items, preFailed, created,
          rmFailed, encOf, handed, gui>>

(***************************************************************************)
(* Bounds of the model.                                                    *)
(***************************************************************************)
MaxItems == 2       \* work items handed to workers, all batches of a run together

(***************************************************************************)
(* Strings.                                                                *)
(***************************************************************************)
Upper == <<"A","B","C","D","E","F","G","H","I","J","K","L","M",
           "N","O","P","Q","R","S","T","U","V","W","X","Y","Z">>
Lowers == <<"a","b","c","d","e","f","g","h","i","j","k","l","m",
            "n","o","p","q","r","s","t","u","v","w","x","y","z">>
Digits == <<"0","1","2","3","4","5","6","7","8","9">>

\* str.lower(), one character
LowerChar(c) ==
    IF \E k \in 1..Len(Upper) : Upper[k] = c
    THEN Lowers[CHOOSE k \in 1..Len(Upper) : Upper[k] = c]
    ELSE c

\* str.lower()
Lower(s) == [k \in 1..Len(s) |-> LowerChar(s[k])]

\* str.endswith(suf)
EndsWith(s, suf) ==
    /\ Len(s) >= Len(suf)
    /\ SubSeq(s, Len(s) - Len(suf) + 1, Len(s)) = suf

\* str.startswith(pre)
StartsWith(s, pre) ==
    /\ Len(s) >= Len(pre)
    /\ SubSeq(s, 1, Len(pre)) = pre

\* str.removesuffix(suf): case-sensitive, unchanged when s does not end in suf
RemoveSuffix(s, suf) ==
    IF EndsWith(s, suf) THEN SubSeq(s, 1, Len(s) - Len(suf)) ELSE s

IsDigit(c) == \E k \in 1..Len(Digits) : Digits[k] = c
DigitVal(c) == (CHOOSE k \in 1..Len(Digits) : Digits[k] = c) - 1

\* int(s) of a non-empty string of digits
RECURSIVE ParseInt(_)
ParseInt(s) ==
    IF s = <<>> THEN 0
    ELSE 10 * ParseInt(SubSeq(s, 1, Len(s) - 1)) + DigitVal(s[Len(s)])

\* f"{n}" of a natural number
RECURSIVE ToStr(_)
ToStr(n) ==
    IF n < 10 THEN <<Digits[n + 1]>>
    ELSE ToStr(n \div 10) \o <<Digits[(n % 10) + 1]>>

\* os.getpid(), formatted: one fixed process for the whole run
PidStr == <<"7">>

AGE == <<".","a","g","e">>                               \* ".age"
DIR_AGE == <<".","d","i","r",".","a","g","e">>           \* ".dir.age"
DirMarkerAge == <<".","D","i","r",".","a","g","e">>      \* ".Dir.age"
TAR_GZ == <<".","t","a","r",".","g","z">>                \* ".tar.gz"
DECRYPTED == <<".","d","e","c","r","y","p","t","e","d">> \* ".decrypted"
TempDecrypted ==                                         \* ".temp_decrypted_<pid>"
    <<".","t","e","m","p","_","d","e","c","r","y","p","t","e","d","_">> \o PidStr
TempArchive ==                                           \* "_temp_<pid>.tar.gz"
    <<"_","t","e","m","p","_">> \o PidStr \o TAR_GZ
TempRecipients ==                                        \* ".temp_recipients_<pid>.txt"
    <<".","t","e","m","p","_","r","e","c","i","p","i","e","n","t","s","_">>
        \o PidStr \o <<".","t","x","t">>

(***************************************************************************)
(* Paths and the file system.                                              *)
(***************************************************************************)
Path(d, n) == [dir |-> d, name |-> n]
Dirname(p) == p.dir                      \* os.path.dirname
Basename(p) == p.name                    \* os.path.basename
Join(d, n) == Path(d, n)                 \* os.path.join(directory, file name)
Plus(p, suf) == Path(p.dir, p.name \o suf)   \* f"{path}{suf}"
SubDir(p) == p.dir \o <<"/">> \o p.name  \* the directory a directory path names

Exists(f, p) == p \in DOMAIN f                          \* os.path.exists
IsDir(f, p) == p \in DOMAIN f /\ f[p].kind = "dir"      \* os.path.isdir
IsFile(f, p) == p \in DOMAIN f /\ f[p].kind = "file"    \* os.path.isfile
File(data) == [kind |-> "file", data |-> data]
Directory == [kind |-> "dir", data |-> <<>>]

\* the file system with p (re)written as a regular file holding data
WriteFile(f, p, data) ==
    [q \in DOMAIN f \cup {p} |-> IF q = p THEN File(data) ELSE f[q]]

\* the file system without p
Unlink(f, p) == [q \in DOMAIN f \ {p} |-> f[q]]

(***************************************************************************)
(* AgeWorker._find_unique_filename (yubiage_ui).                           *)
(***************************************************************************)
\* positions of the dots of a file name that have a non-dot character before them
ExtDots(n) ==
    {k \in 1..Len(n) : n[k] = "." /\ \E j \in 1..(k - 1) : n[j] # "."}

\* os.path.splitext of a file name: <<root, ext>>
SplitExt(n) ==
    LET last == {k \in 1..Len(n) : n[k] = "."} IN
    IF last = {} THEN <<n, <<>>>>
    ELSE LET k == CHOOSE x \in last : \A y \in last : y <= x IN
         IF k \in ExtDots(n)
         THEN <<SubSeq(n, 1, k - 1), SubSeq(n, k, Len(n))>>
         ELSE <<n, <<>>>>

\* a mutant of NumMatch: a trailing " (k)" is never recognised
NumMatchNever(n) == {}

\* re.search(r' \((\d+)\)$', name): the lengths m of a digit run that matches
NumMatch(n) ==
    {m \in 1..Len(n) :
        /\ Len(n) >= m + 3
        /\ n[Len(n)] = ")"
        /\ \A k \in (Len(n) - m)..(Len(n) - 1) : IsDigit(n[k])
        /\ n[Len(n) - m - 1] = "("
        /\ n[Len(n) - m - 2] = " "}

\* the while True loop: the first start_num, counting up, whose name is free
RECURSIVE FirstFree(_, _, _, _, _)
FirstFree(f, directory, base, ext, start_num) ==
    LET new_name == base \o <<" ", "(">> \o ToStr(start_num) \o <<")">> \o ext
        new_path == Join(directory, new_name)
    IN  IF ~Exists(f, new_path) THEN new_path
        ELSE FirstFree(f, directory, base, ext, start_num + 1)

\* a mutant of _find_unique_filename: the existence test is dropped
FindUniqueNoCheck(f, path) == path

_find_unique_filename(f, path) ==
    IF ~Exists(f, path) THEN path
    ELSE
        LET directory == Dirname(path)
            filename == Basename(path)
            se == SplitExt(filename)
            name == se[1]
            ext == se[2]
            match == NumMatch(name)
        IN  IF match # {}
            THEN LET m == CHOOSE x \in match : TRUE
                     digits == SubSeq(name, Len(name) - m, Len(name) - 1)
                 IN  FirstFree(f, directory,
                               SubSeq(name, 1, Len(name) - m - 3), ext,
                               ParseInt(digits) + 1)
            ELSE FirstFree(f, directory, name, ext, 1)

(***************************************************************************)
(* Key material: the recipients file of an encrypt item.                   *)
(***************************************************************************)
IsSpace(c) == c \in {" ", "\t"}

\* str.strip() of one line
RECURSIVE LStrip(_)
LStrip(l) == IF l # <<>> /\ IsSpace(l[1]) THEN LStrip(Tail(l)) ELSE l
RECURSIVE RStrip(_)
RStrip(l) ==
    IF l # <<>> /\ IsSpace(l[Len(l)]) THEN RStrip(SubSeq(l, 1, Len(l) - 1)) ELSE l
StripLine(l) == LStrip(RStrip(l))

\* a mutant of the comment filter: comment lines are kept
KeepLineAll(l) == TRUE

\* not line.strip().startswith('#')
KeepLine(l) == ~StartsWith(StripLine(l), <<"#">>)

\* "".join(lines).strip(), as lines: blank lines at both ends go, the first
\* line loses its leading and the last its trailing white space
RECURSIVE DropBlankHead(_)
DropBlankHead(ls) ==
    IF ls # <<>> /\ StripLine(ls[1]) = <<>> THEN DropBlankHead(Tail(ls)) ELSE ls
RECURSIVE DropBlankTail(_)
DropBlankTail(ls) ==
    IF ls # <<>> /\ StripLine(ls[Len(ls)]) = <<>>
    THEN DropBlankTail(SubSeq(ls, 1, Len(ls) - 1)) ELSE ls
StripText(ls) ==
    LET t == DropBlankTail(DropBlankHead(ls)) IN
    IF t = <<>> THEN <<>>
    ELSE LET a == [t EXCEPT ![1] = LStrip(t[1])]
         IN  [a EXCEPT ![Len(a)] = RStrip(a[Len(a)])]

\* what one key file contributes: content + '\n' when content is not empty
KeyContent(data) == StripText(SelectSeq(data, KeepLine))

\* a mutant of RecipientsText: the key files are written last to first
RECURSIVE RecipientsTextReversed(_, _)
RecipientsTextReversed(f, ks) ==
    IF ks = <<>> THEN <<>>
    ELSE RecipientsTextReversed(f, Tail(ks))
         \o (IF ~Exists(f, ks[1]) THEN <<>> ELSE KeyContent(f[ks[1]].data))

\* the text written to the recipients file for the key list ks
RECURSIVE RecipientsText(_, _)
RecipientsText(f, ks) ==
    IF ks = <<>> THEN <<>>
    ELSE (IF ~Exists(f, ks[1]) THEN <<>> ELSE KeyContent(f[ks[1]].data))
         \o RecipientsText(f, Tail(ks))

(***************************************************************************)
(* The command line (an argument is a path; a flag is a path with no       *)
(* directory) and the external age tool.                                   *)
(***************************************************************************)
NoPath == Path(<<>>, <<>>)          \* None
Flag(s) == Path(<<>>, s)
ArgAge == Flag(<<"a","g","e">>)     \* "age"
ArgA == Flag(<<"-","a">>)           \* "-a"
ArgD == Flag(<<"-","d">>)           \* "-d"
ArgO == Flag(<<"-","o">>)           \* "-o"
ArgR == Flag(<<"-","R">>)           \* "-R"
ArgI == Flag(<<"-","i">>)           \* "-i"

\* a mutant of the identity arguments: the last key first
RECURSIVE IdentityArgsReversed(_)
IdentityArgsReversed(ks) ==
    IF ks = <<>> THEN <<>>
    ELSE IdentityArgsReversed(Tail(ks)) \o <<Flag(<<"-","i">>), ks[1]>>

\* for key_path in self.recipients_keys: cmd.extend(["-i", key_path])
RECURSIVE IdentityArgs(_)
IdentityArgs(ks) ==
    IF ks = <<>> THEN <<>> ELSE <<ArgI, ks[1]>> \o IdentityArgs(Tail(ks))

\* output_path_base of a decrypt item
OutputPathBase(input_path) ==
    IF EndsWith(Lower(input_path.name), AGE)
    THEN Path(input_path.dir, RemoveSuffix(input_path.name, AGE))
    ELSE Plus(input_path, DECRYPTED)

\* a mutant of OutputPathBase: the suffix is kept
OutputPathBaseKeep(input_path) == input_path

Built(raised, msg, cmd, f, trf, top, tdp, opb) ==
    [raised |-> raised, msg |-> msg, cmd |-> cmd, fs |-> f,
     temp_recipients_file |-> trf, temp_output_path |-> top,
     temp_decrypt_path |-> tdp, output_path_base |-> opb]

\* "--- Build command ---": the command, the local variables it sets and the
\* file system after the recipients file is written; raised when it raises
BuildCommand(v, m, f, input_path, keys) ==
    IF m = "encrypt"
    THEN LET temp_output_path == Plus(input_path, AGE)
             temp_recipients_file == Join(Dirname(input_path), TempRecipients)
             f1 == WriteFile(f, temp_recipients_file, RecipientsText(f, keys))
         IN  IF keys = <<>>
             THEN Built(TRUE, "No recipients.", <<>>, f,
                        NoPath, temp_output_path, NoPath, NoPath)
             ELSE IF f1[temp_recipients_file].data = <<>>
             THEN Built(TRUE, "Recipient key file is empty or invalid.", <<>>, f1,
                        temp_recipients_file, temp_output_path, NoPath, NoPath)
             ELSE Built(FALSE, "",
                        <<ArgAge, ArgA, ArgO, temp_output_path,
                          ArgR, temp_recipients_file, input_path>>,
                        f1, temp_recipients_file, temp_output_path, NoPath, NoPath)
    ELSE LET output_path_base == OutputPathBase(input_path)
             temp_decrypt_path ==
                 IF v = "ageyubi" THEN NoPath
                 ELSE Plus(output_path_base, TempDecrypted)
             target == IF v = "ageyubi" THEN output_path_base ELSE temp_decrypt_path
         IN  IF keys = <<>>
             THEN Built(TRUE, "No identity.", <<>>, f,
                        NoPath, NoPath, temp_decrypt_path, output_path_base)
             ELSE Built(FALSE, "",
                        <<ArgAge, ArgD, ArgO, target>> \o IdentityArgs(keys)
                            \o <<input_path>>,
                        f, NoPath, NoPath, temp_decrypt_path, output_path_base)

\* the content age writes: an armored header line before the plaintext
EncHeader == <<"a","g","e","-","e","n","c","r","y","p","t","i","o","n">>
Enc(data) == <<EncHeader>> \o data
IsEnc(data) == data # <<>> /\ data[1] = EncHeader
Dec(data) == Tail(data)
Partial == <<>>         \* what a failed run may leave in its output file

CmdOutput(cmd) == cmd[4]            \* the argument after -o
CmdInput(cmd) == cmd[Len(cmd)]      \* the last argument

\* the ways one invocation of the tool can end
ToolOutcomes(cmd, f) ==
    {"spawn_error", "exit0_no_output", "fail_stderr", "fail_silent", "fail_partial"}
    \cup (IF /\ IsFile(f, CmdInput(cmd))
             /\ ~IsDir(f, CmdOutput(cmd))
             /\ CmdOutput(cmd) # CmdInput(cmd)
             /\ (cmd[2] = ArgD => IsEnc(f[CmdInput(cmd)].data))
          THEN {"ok"} ELSE {})

\* subprocess.Popen(cmd) ... communicate(): whether Popen raised, the exit
\* code, the stderr text as the tool wrote it and the file system the tool
\* leaves
RunAge(cmd, f, outcome) ==
    LET inp == CmdInput(cmd)
        out == CmdOutput(cmd)
    IN  CASE outcome = "spawn_error" ->
                [raised |-> TRUE, rc |-> 0, stderr |-> "", fs |-> f]
          [] outcome = "ok" ->
                [raised |-> FALSE, rc |-> 0, stderr |-> "",
                 fs |-> WriteFile(f, out, IF cmd[2] = ArgA THEN Enc(f[inp].data)
                                          ELSE Dec(f[inp].data))]
          [] outcome = "exit0_no_output" ->
                [raised |-> FALSE, rc |-> 0, stderr |-> "", fs |-> f]
          [] outcome = "fail_stderr" ->
                [raised |-> FALSE, rc |-> 1, stderr |-> "age: error\n", fs |-> f]
          [] outcome = "fail_silent" ->
                [raised |-> FALSE, rc |-> 1, stderr |-> "", fs |-> f]
          [] outcome = "fail_partial" ->
                [raised |-> FALSE, rc |-> 1, stderr |-> "\n",
                 fs |-> IF IsDir(f, out) THEN f ELSE WriteFile(f, out, Partial)]

\* os.rename(src, dst): raises when src is missing, when dst is a directory,
\* or when the system refuses (fails): no permission, or, on Windows, a dst
\* that exists already; where it does not raise, an existing dst is replaced
Rename(f, src, dst, fails) ==
    IF \/ fails
       \/ ~Exists(f, src)
       \/ IsDir(f, dst)
    THEN [raised |-> TRUE, fs |-> f]
    ELSE IF src = dst THEN [raised |-> FALSE, fs |-> f]
    ELSE [raised |-> FALSE,
          fs |-> Unlink([q \in DOMAIN f \cup {dst} |->
                            IF q = dst THEN f[src] ELSE f[q]], src)]

(***************************************************************************)
(* Signals.  A progress value is the fraction a / b.                       *)
(***************************************************************************)
ErrorSig(name, msg) ==
    [sig |-> "error", name |-> name, msg |-> msg, a |-> 0, b |-> 0, c |-> FALSE]
ProgressSig(a, b) ==
    [sig |-> "progress", name |-> <<>>, msg |-> "", a |-> a, b |-> b, c |-> FALSE]
FinishedSig(success, total, needs_clear) ==
    [sig |-> "finished", name |-> <<>>, msg |-> "",
     a |-> success, b |-> total, c |-> needs_clear]
PreProcessName == <<"P","r","e","-","p","r","o","c","e","s","s">>

(***************************************************************************)
(* One pass of the per-file loop of AgeWorker.run.                         *)
(***************************************************************************)
Posted(raised, msg, f, out) == [raised |-> raised, msg |-> msg, fs |-> f, out |-> out]

\* a mutant of the post-processing of ageyub_ui: nothing is renamed
PostProcessArchivingNoRename(m, f, input_path, original_source_path, b, renameFails) ==
    Posted(FALSE, "", f,
           IF m = "encrypt" THEN b.temp_output_path ELSE b.temp_decrypt_path)

\* "Post-process (Rename/Cleanup)" of ageyub_ui, after exit code 0
PostProcessArchiving(m, f, input_path, original_source_path, b, renameFails) ==
    IF m = "encrypt"
    THEN IF IsDir(f, original_source_path)
         THEN LET final_output_path == Plus(original_source_path, DirMarkerAge)
                  r == Rename(f, b.temp_output_path, final_output_path,
                              renameFails)
              IN  IF Exists(f, b.temp_output_path)
                  THEN IF r.raised
                       THEN Posted(TRUE, "rename failed", r.fs, b.temp_output_path)
                       ELSE Posted(FALSE, "", r.fs, final_output_path)
                  ELSE Posted(FALSE, "", f, b.temp_output_path)
         ELSE Posted(FALSE, "", f, b.temp_output_path)
    ELSE IF EndsWith(Lower(input_path.name), DIR_AGE)
         THEN LET final_output_path == Plus(b.output_path_base, TAR_GZ)
                  r == Rename(f, b.temp_decrypt_path, final_output_path,
                              renameFails)
              IN  IF Exists(f, b.temp_decrypt_path)
                  THEN IF r.raised
                       THEN Posted(TRUE, "rename failed", r.fs, b.temp_decrypt_path)
                       ELSE Posted(FALSE, "", r.fs, final_output_path)
                  ELSE Posted(FALSE, "", f, b.temp_decrypt_path)
         ELSE Posted(FALSE, "", f, b.temp_decrypt_path)

\* a mutant of the post-processing of yubiage_ui: the output is moved onto the
\* natural target name without looking for a free one
PostProcessOverwrite(m, f, input_path, b, renameFails) ==
    IF m = "decrypt" /\ Exists(f, b.temp_decrypt_path)
    THEN Posted(FALSE, "",
                Rename(f, b.temp_decrypt_path, b.output_path_base, FALSE).fs,
                b.output_path_base)
    ELSE Posted(FALSE, "", f, b.temp_output_path)

\* "Post-process (Rename/Cleanup)" of yubiage_ui, after exit code 0
PostProcessUnique(m, f, input_path, b, renameFails) ==
    IF m = "encrypt"
    THEN Posted(FALSE, "", f, b.temp_output_path)
    ELSE IF EndsWith(Lower(input_path.name), AGE)
         THEN IF Exists(f, b.temp_decrypt_path)
              THEN LET expected_output_path == b.output_path_base
                       final_output_path ==
                           _find_unique_filename(f, expected_output_path)
                       r == Rename(f, b.temp_decrypt_path,
                                   final_output_path, renameFails)
                   IN  IF r.raised
                       THEN Posted(TRUE, "rename failed", r.fs, b.temp_decrypt_path)
                       ELSE Posted(FALSE, "", r.fs, final_output_path)
              ELSE Posted(TRUE, "Age returned success, but output file not found",
                          f, b.temp_decrypt_path)
         ELSE Posted(FALSE, "", f, b.temp_decrypt_path)

\* after exit code 0, by variant; ageyubi does nothing there
PostProcess(v, m, f, input_path, original_source_path, b, renameFails) ==
    CASE v = "ageyub_ui" ->
            PostProcessArchiving(m, f, input_path, original_source_path,
                                 b, renameFails)
      [] v = "yubiage_ui" ->
            PostProcessUnique(m, f, input_path, b, renameFails)
      [] v = "ageyubi" ->
            Posted(FALSE, "", f,
                   IF m = "encrypt" THEN b.temp_output_path ELSE b.output_path_base)

\* the characters str.strip removes
Whitespace == {" ", "\t", "\n", "\r"}

\* a mutant of str.strip: the text is taken as it is
StripNothing(s) == s

\* str.strip of a text
RECURSIVE Strip(_)
Strip(s) ==
    IF Len(s) = 0 THEN s
    ELSE IF SubSeq(s, 1, 1) \in Whitespace THEN Strip(SubSeq(s, 2, Len(s)))
    ELSE IF SubSeq(s, Len(s), Len(s)) \in Whitespace
    THEN Strip(SubSeq(s, 1, Len(s) - 1))
    ELSE s

\* the try block of one item: build, invoke, post-process
TryItem(v, m, f, input_path, original_source_path, keys, tool, renameFails) ==
    LET b == BuildCommand(v, m, f, input_path, keys)
        r == RunAge(b.cmd, b.fs, tool)
        post == PostProcess(v, m, r.fs, input_path, original_source_path,
                            b, renameFails)
        error_msg == Strip(r.stderr)
        T(raised, msg, f1, invoked, rc, out, stderr) ==
            [raised |-> raised, msg |-> msg, fs |-> f1, invoked |-> invoked,
             rc |-> rc, out |-> out, stderr |-> stderr, b |-> b]
    IN  IF b.raised THEN T(TRUE, b.msg, b.fs, FALSE, 0, NoPath, "")
        ELSE IF r.raised THEN T(TRUE, "spawn failed", r.fs, FALSE, 0, NoPath, "")
        ELSE IF r.rc = 0
        THEN T(post.raised, post.msg, post.fs, TRUE, 0, post.out, r.stderr)
        ELSE T(TRUE,
               IF error_msg # "" THEN error_msg
               ELSE "Failed, exit code: " \o ToString(r.rc),
               r.fs, TRUE, r.rc, NoPath, r.stderr)

\* a mutant of the finally block: the temporary decrypted file is left behind
FinallyKeepTemp(v, m, f, b, removeFails) ==
    [fs |-> f, attempted |-> {}]

\* a mutant of the finally block: the recipients file is left behind
FinallyKeepRecipients(v, m, f, b, removeFails) ==
    LET dec == IF /\ v # "ageyubi"
                  /\ m = "decrypt"
                  /\ b.temp_decrypt_path # NoPath
                  /\ Exists(f, b.temp_decrypt_path)
               THEN {b.temp_decrypt_path} ELSE {}
        gone == IF removeFails THEN {} ELSE dec
    IN  [fs |-> [q \in DOMAIN f \ gone |-> f[q]], attempted |-> dec]

\* the finally block of one item: the removals it attempts and the file
\* system it leaves (a removal that raises is swallowed)
FinallyCleanup(v, m, f, b, removeFails) ==
    LET rec == IF b.temp_recipients_file # NoPath /\ Exists(f, b.temp_recipients_file)
               THEN {b.temp_recipients_file} ELSE {}
        dec == IF /\ v # "ageyubi"
                  /\ m = "decrypt"
                  /\ b.temp_decrypt_path # NoPath
                  /\ Exists(f, b.temp_decrypt_path)
               THEN {b.temp_decrypt_path} ELSE {}
        gone == IF removeFails THEN {} ELSE rec \cup dec
    IN  [fs |-> [q \in DOMAIN f \ gone |-> f[q]], attempted |-> rec \cup dec]

(***************************************************************************)
(* What a drop hands to a worker: AgeGUI._on_files_dropped decides the     *)
(* mode or rejects the drop; _start_process then constructs the worker.    *)
(***************************************************************************)
\* a mutant of the suffix test: the case of the suffix matters
IsAgeCaseSensitive(p) == EndsWith(p.name, AGE)

IsAge(p) == EndsWith(Lower(p.name), AGE)        \* p.lower().endswith(".age")

RECURSIVE SeqOfSet(_)
SeqOfSet(S) ==
    IF S = {} THEN <<>>
    ELSE LET x == CHOOSE y \in S : TRUE IN <<x>> \o SeqOfSet(S \ {x})

\* the files os.walk finds under a directory, dot files left out
WalkFiles(f, d) ==
    SeqOfSet({q \in DOMAIN f :
                /\ f[q].kind = "file"
                /\ \/ q.dir = SubDir(d)
                   \/ StartsWith(q.dir, SubDir(d) \o <<"/">>)
                /\ ~StartsWith(q.name, <<".">>)})

\* AgeGUI._get_files_recursive (yubiage_ui)
RECURSIVE _get_files_recursive(_, _)
_get_files_recursive(f, paths) ==
    IF paths = <<>> THEN <<>>
    ELSE (IF StartsWith(Basename(paths[1]), <<".">>) THEN <<>>
          ELSE IF IsFile(f, paths[1]) THEN <<paths[1]>>
          ELSE IF IsDir(f, paths[1]) THEN WalkFiles(f, paths[1])
          ELSE <<>>)
         \o _get_files_recursive(f, Tail(paths))

Range(sq) == {sq[k] : k \in 1..Len(sq)}
Rejected == [mode |-> "reject", files |-> <<>>]
Accepted(m, files) == [mode |-> m, files |-> files]

\* a mutant of the classifier: every variant takes any batch of .age paths
OnFilesDroppedAnyCount(v, f, paths) ==
    IF \A p \in Range(paths) : IsAge(p) THEN Accepted("decrypt", paths)
    ELSE IF \E p \in Range(paths) : IsAge(p) THEN Rejected
    ELSE Accepted("encrypt", paths)

\* AgeGUI._on_files_dropped of each variant: the mode and the file list the
\* worker is given, or a rejection
OnFilesDropped(v, f, paths) ==
    LET has_age_files == \E p \in Range(paths) : IsAge(p)
        has_dirs == \E p \in Range(paths) : IsDir(f, p)
        collected_files == _get_files_recursive(f, paths)
    IN  CASE v = "ageyubi" ->
                IF has_age_files /\ \E p \in Range(paths) : ~IsAge(p)
                THEN Rejected
                ELSE IF \A p \in Range(paths) : IsAge(p)
                THEN Accepted("decrypt", paths)
                ELSE Accepted("encrypt", paths)
          [] v = "ageyub_ui" ->
                IF \/ (has_dirs /\ has_age_files)
                   \/ (has_age_files
                       /\ \E p \in Range(paths) : ~IsAge(p) /\ ~IsDir(f, p))
                THEN Rejected
                ELSE IF has_age_files THEN Accepted("decrypt", paths)
                ELSE Accepted("encrypt", paths)
          [] v = "yubiage_ui" ->
                IF has_age_files
                THEN IF Len(paths) > 1 \/ IsDir(f, paths[1]) THEN Rejected
                     ELSE IF ~IsAge(paths[1]) \/ ~IsFile(f, paths[1]) THEN Rejected
                     ELSE Accepted("decrypt", paths)
                ELSE IF collected_files = <<>> THEN Rejected
                ELSE IF \E p \in Range(collected_files) : IsAge(p) THEN Rejected
                ELSE Accepted("encrypt", collected_files)

(***************************************************************************)
(* The initial file system and the inputs of a run.                        *)
(***************************************************************************)
W == <<"w">>                    \* the directory files are dropped from
K == <<"k">>                    \* the directory of the key files
Plain1 == << <<"h","i">> >>
Plain2 == << <<"y","o">> >>
Plain3 == << <<"a">> >>
FileR == Path(W, <<"r",".","t","x","t">>)
FileRAge == Path(W, <<"r",".","t","x","t",".","a","g","e">>)
FileTAge == Path(W, <<"t",".","a","g","e">>)
FileUAge == Path(W, <<"u",".","A","G","E">>)
FileNAge == Path(W, <<"n"," ","(","1",")",".","b",".","a","g","e">>)
FileN1 == Path(W, <<"n"," ","(","1",")",".","b">>)
FileN2 == Path(W, <<"n"," ","(","2",")",".","b">>)
DirD == Path(W, <<"D">>)
DirE == Path(W, <<"E">>)
FileDA == Path(SubDir(DirD), <<"a">>)
KeyPub == Path(K, <<"p","u","b">>)
KeyCmt == Path(K, <<"c","m","t">>)
KeyId == Path(K, <<"i","d">>)
KeyId2 == Path(K, <<"i","d","2">>)
KeySemi == Path(K, <<"a",";","b">>)
KeyGone == Path(K, <<"g","o","n","e">>)     \* a remembered key file since deleted

InitialFs ==
    (FileR :> File(Plain1)) @@ (FileRAge :> File(Enc(Plain1)))
    @@ (FileTAge :> File(Enc(Plain2))) @@ (FileUAge :> File(Enc(Plain2)))
    @@ (DirD :> Directory) @@ (DirE :> Directory) @@ (FileDA :> File(Plain3))
    @@ (KeyPub :> File(<< <<"#"," ","k">>, <<"a","g","e","1">> >>))
    @@ (KeyCmt :> File(<< <<" ","#","c">> >>))
    @@ (KeyId :> File(<< <<"A","G","E","-","S","K">> >>))
    @@ (KeyId2 :> File(<< <<"A","G","E","-","S","K","2">> >>))
    @@ (FileNAge :> File(Enc(Plain3))) @@ (FileN1 :> File(Plain2))
    @@ (FileN2 :> File(Plain1))
    @@ (KeySemi :> File(<< <<"a","g","e","1","s">> >>))

\* the key lists a worker can be given (never empty: _start_process)
KeyChoices(m) ==
    IF m = "encrypt" THEN {<<KeyCmt, KeyPub>>, <<KeyCmt, KeyGone>>} ELSE {<<KeyId2, KeyId>>}

\* the drops of up to n distinct existing paths among the candidates
Candidates(v) ==
    {FileR, FileRAge, FileTAge, DirD, DirE, Plus(DirD, DirMarkerAge)}
    \cup (IF v = "yubiage_ui" THEN {FileNAge} ELSE {})
Droppable(f) == Candidates(variant) \cap DOMAIN f
Drops(f, n) ==
    {sq \in UNION {[1..k -> Droppable(f)] : k \in 1..n} :
        \A j, k \in 1..Len(sq) : j # k => sq[j] # sq[k]}

\* the archive _create_tar_archive writes for a directory
Tar(dir_path) == << <<"t","a","r">>, Basename(dir_path) >>

(***************************************************************************)
(* The window: the fields of AgeGUI, the mode of its drop target and the   *)
(* disabled flags of its three widgets, and its handlers as functions of   *)
(* that state.                                                             *)
(***************************************************************************)
\* the text of a path, and the path a text names
PathStr(p) == p.dir \o <<"/">> \o p.name
ParsePath(t) ==
    IF \E i \in 1..Len(t) : t[i] = "/"
    THEN LET i == CHOOSE j \in 1..Len(t) :
                    t[j] = "/" /\ \A n \in (j + 1)..Len(t) : t[n] # "/"
         IN  Path(SubSeq(t, 1, i - 1), SubSeq(t, i + 1, Len(t)))
    ELSE Path(<<>>, t)

\* ";".join(keys_to_save)
RECURSIVE JoinPaths(_)
JoinPaths(ps) ==
    IF ps = <<>> THEN <<>>
    ELSE IF Len(ps) = 1 THEN PathStr(ps[1])
    ELSE PathStr(ps[1]) \o <<";">> \o JoinPaths(Tail(ps))

\* a mutant of str.split(';'): the text is one piece
SplitNone(t) == <<t>>

\* key_paths_str.split(';')
RECURSIVE Split(_)
Split(t) ==
    IF \E i \in 1..Len(t) : t[i] = ";"
    THEN LET i == CHOOSE j \in 1..Len(t) :
                    t[j] = ";" /\ \A n \in 1..(j - 1) : t[n] # ";"
         IN  <<SubSeq(t, 1, i - 1)>> \o Split(SubSeq(t, i + 1, Len(t)))
    ELSE <<t>>

\* the settings file: Keys/RememberKeys and the text of Keys/Paths
NoSettings == [remember |-> FALSE, paths |-> <<>>]

\* the paths of a sequence of texts
PathsOf(ts) == [i \in 1..Len(ts) |-> ParsePath(ts[i])]

\* AgeGUI.__init__ followed by _load_key_settings, for a settings file s
Loaded(f, s) ==
    LET key_paths ==
            PathsOf(SelectSeq(Split(s.paths),
                              LAMBDA t : Exists(f, ParsePath(t)) /\ t # <<>>))
    IN
    [files_to_process |-> <<>>, keys |-> <<>>,
     recipients_keys |-> IF s.remember THEN key_paths ELSE <<>>,
     key_pending |-> FALSE, current_action_mode |-> "none",
     target_mode |-> "file",
     drop_disabled |-> FALSE, clear_disabled |-> FALSE,
     clear_keys_disabled |-> FALSE,
     settings |-> s,
     running |-> FALSE,         \* a worker was started, _on_finished not yet run
     dropped |-> <<>>,          \* history: the paths of the last file drop
     verdict |-> "none"]        \* history: what the handler did with them

\* _save_key_settings(keys_to_save, remember)
SavedSettings(keys_to_save, remember) ==
    [remember |-> remember,
     paths |-> IF remember THEN JoinPaths(keys_to_save) ELSE <<>>]

\* _reset_state_ui(clear_keys)
\* a mutant of _reset_state_ui: the remembered keys are always cleared
ResetStateClearsKeys(g, clear_keys) ==
    [g EXCEPT !.files_to_process = <<>>,
              !.key_pending = FALSE,
              !.current_action_mode = "none",
              !.keys = <<>>,
              !.drop_disabled = FALSE,
              !.clear_disabled = FALSE,
              !.clear_keys_disabled = FALSE,
              !.target_mode = "file",
              !.recipients_keys = <<>>]

_reset_state_ui(g, clear_keys) ==
    [g EXCEPT !.files_to_process = <<>>,
              !.key_pending = FALSE,
              !.current_action_mode = "none",
              !.keys = <<>>,
              !.drop_disabled = FALSE,
              !.clear_disabled = FALSE,
              !.clear_keys_disabled = FALSE,
              !.target_mode = "file",
              !.recipients_keys = IF clear_keys THEN <<>> ELSE @]

\* the result of a handler: the window after it, and whether it started a worker
Handled(g, started) == [g |-> g, started |-> started]

\* a mutant of _start_process: the widgets are left enabled
StartProcessUnlocked(g) ==
    IF g.files_to_process = <<>> \/ g.keys = <<>>
    THEN Handled(_reset_state_ui([g EXCEPT !.target_mode = "error"], FALSE), FALSE)
    ELSE Handled([g EXCEPT !.running = TRUE], TRUE)

\* _start_process
_start_process(g) ==
    IF g.files_to_process = <<>> \/ g.keys = <<>>
    THEN Handled(_reset_state_ui([g EXCEPT !.target_mode = "error"], FALSE), FALSE)
    ELSE Handled([g EXCEPT !.drop_disabled = TRUE,
                           !.clear_disabled = TRUE,
                           !.clear_keys_disabled = TRUE,
                           !.running = TRUE], TRUE)

\* a mutant of AfterModeDecided: the worker is started at once, with the keys
\* the window holds, and not through _start_process
AfterModeDecidedStartsAtOnce(g) ==
    Handled([g EXCEPT !.drop_disabled = TRUE,
                      !.clear_disabled = TRUE,
                      !.clear_keys_disabled = TRUE,
                      !.running = TRUE], TRUE)

\* a mutant of AfterModeDecided: remembered keys start a batch of either mode
AfterModeDecidedRemembered(g) ==
    IF g.recipients_keys = <<>>
    THEN Handled([g EXCEPT !.key_pending = TRUE, !.target_mode = "key"], FALSE)
    ELSE _start_process([g EXCEPT !.keys = g.recipients_keys])

\* the end of _on_files_dropped, after the mode is decided: ask for a key, or
\* start with the remembered recipients
AfterModeDecided(g) ==
    IF g.current_action_mode = "decrypt" \/ g.recipients_keys = <<>>
    THEN Handled([g EXCEPT !.key_pending = TRUE, !.target_mode = "key"], FALSE)
    ELSE _start_process([g EXCEPT !.keys = g.recipients_keys])

\* a mutant of _on_files_dropped: a rejected drop goes on as an encrypt batch
FilesDroppedNoReject(v, f, g, paths) ==
    AfterModeDecided([g EXCEPT !.files_to_process = paths,
                               !.current_action_mode = "encrypt",
                               !.verdict = "accepted"])

\* _on_files_dropped(paths), the whole handler, of each variant
_on_files_dropped(v, f, g, paths) ==
    LET d == OnFilesDropped(v, f, paths) IN
    IF g.key_pending THEN Handled([g EXCEPT !.verdict = "ignored"], FALSE)
    ELSE IF d.mode = "reject"
    THEN Handled([g EXCEPT !.verdict = "rejected",
                           !.target_mode = "error",
                           !.files_to_process =
                               IF v = "ageyubi" THEN paths ELSE @,
                           !.drop_disabled =
                               IF v = "ageyubi" THEN FALSE ELSE @], FALSE)
    ELSE AfterModeDecided([g EXCEPT !.verdict = "accepted",
                                    !.files_to_process = d.files,
                                    !.current_action_mode = d.mode,
                                    !.keys = IF v = "yubiage_ui" THEN @ ELSE <<>>])

\* _on_keys_dropped_in_key_mode(paths)
_on_keys_dropped_in_key_mode(v, f, g, paths) ==
    LET valid_key_paths ==
            SelectSeq(paths, LAMBDA q :
                /\ Exists(f, q)
                /\ (v = "yubiage_ui" => IsFile(f, q)))
    IN
    IF ~g.key_pending THEN Handled(g, FALSE)
    ELSE IF valid_key_paths = <<>>
    THEN Handled([g EXCEPT !.target_mode = "error", !.drop_disabled = FALSE], FALSE)
    ELSE _start_process(
            IF g.current_action_mode = "encrypt"
            THEN [g EXCEPT !.keys = valid_key_paths,
                           !.key_pending = FALSE,
                           !.recipients_keys = valid_key_paths,
                           !.settings = SavedSettings(valid_key_paths, TRUE)]
            ELSE [g EXCEPT !.keys = valid_key_paths,
                           !.key_pending = FALSE])

\* a mutant of _clear_keys_action: no test of the list, no confirmation
ClearKeysNoConfirm(v, g, reply) ==
    LET cleared == [g EXCEPT !.recipients_keys = <<>>,
                             !.settings = [remember |-> FALSE, paths |-> <<>>],
                             !.keys = <<>>]
    IN
    IF g.key_pending
    THEN [cleared EXCEPT !.files_to_process = <<>>,
                         !.key_pending = FALSE,
                         !.current_action_mode = "none",
                         !.target_mode = "file"]
    ELSE cleared

\* a mutant of _clear_keys_action: the settings file is not written
ClearKeysNoSave(v, g, reply) ==
    LET cleared == [g EXCEPT !.recipients_keys = <<>>, !.keys = <<>>] IN
    IF v # "ageyubi" /\ g.recipients_keys = <<>> THEN g
    ELSE IF v # "ageyubi" /\ reply # "Yes" THEN g
    ELSE IF g.key_pending THEN _reset_state_ui(cleared, FALSE)
    ELSE cleared

\* _clear_keys_action; reply is the answer to the confirmation dialog, which
\* ageyubi does not show
_clear_keys_action(v, g, reply) ==
    LET cleared == [g EXCEPT !.recipients_keys = <<>>,
                             !.settings = SavedSettings(<<>>, FALSE),
                             !.keys = <<>>]
    IN
    IF v # "ageyubi" /\ g.recipients_keys = <<>> THEN g
    ELSE IF v # "ageyubi" /\ reply # "Yes" THEN g
    ELSE IF g.key_pending THEN _reset_state_ui(cleared, FALSE)
    ELSE cleared

\* a mutant of _on_finished: the widgets stay disabled
OnFinishedStaysLocked(v, g, success, total) ==
    [g EXCEPT !.running = FALSE,
              !.target_mode = IF success = total THEN "finished" ELSE "error"]

\* _on_finished(success, total, needs_clear)
_on_finished(v, g, success, total) ==
    LET enabled == [g EXCEPT !.drop_disabled = FALSE,
                             !.clear_disabled = FALSE,
                             !.clear_keys_disabled = FALSE,
                             !.running = FALSE]
        \* drop_target.set_mode("error", ...) or set_mode("finished", ...)
        shown == [enabled EXCEPT !.target_mode =
                     IF success = total /\ (v = "ageyubi" \/ total # 0)
                     THEN "finished" ELSE "error"]
    IN
    IF v = "ageyubi" THEN _reset_state_ui(shown, FALSE)
    ELSE IF total = 0 THEN _reset_state_ui(shown, FALSE)
    ELSE IF success = total
    THEN IF g.current_action_mode = "decrypt"
         THEN [shown EXCEPT !.files_to_process = <<>>,
                            !.keys = <<>>]
         ELSE shown
    ELSE _reset_state_ui(shown, FALSE)

(***************************************************************************)
(* The state machine.                                                      *)
(***************************************************************************)
NoMap == [q \in {} |-> NoPath]
Variants == {"ageyubi", "ageyub_ui", "yubiage_ui"}

\* no worker constructed yet
Constructed ==
    /\ variant \in Variants
    /\ fs = InitialFs
    /\ pc = "idle"
    /\ mode = "none"
    /\ files_to_process = <<>>
    /\ recipients_keys = <<>>
    /\ processed_files = <<>>
    /\ file_map = NoMap
    /\ temp_files_to_cleanup = <<>>
    /\ idx = 1
    /\ success_count = 0
    /\ total_files = 0
    /\ events = <<>>
    /\ items = <<>>
    /\ preFailed = FALSE
    /\ created = {}
    /\ rmFailed = {}
    /\ encOf = NoMap
    /\ handed = 0

Init ==
    /\ Constructed
    /\ gui = Loaded(InitialFs, NoSettings)

\* AgeWorker(mode, files, keys) and worker.start(): the fields of the new
\* worker and the first lines of run, up to the first loop
StartWorker(v, m, files, keys) ==
    /\ handed' = handed + Len(files)
    /\ recipients_keys' = keys
    /\ mode' = m
    /\ files_to_process' = files
    /\ IF v = "ageyub_ui" /\ m = "encrypt"
       THEN /\ pc' = "pre"
            /\ processed_files' = <<>>
            /\ file_map' = NoMap
            /\ total_files' = 0
       ELSE /\ pc' = "loop"
            /\ processed_files' = files
            /\ file_map' = [q \in Range(files) |-> q]
            /\ total_files' = Len(files)
    /\ temp_files_to_cleanup' = <<>>
    /\ idx' = 1
    /\ success_count' = 0
    /\ events' = <<>>
    /\ items' = <<>>
    /\ preFailed' = FALSE
    /\ created' = {}
    /\ rmFailed' = {}

\* _start_process with any batch a drop can hand over and any key list
StartBatch ==
    /\ pc \in {"idle", "done"}
    /\ handed < MaxItems
    /\ \E paths \in Drops(fs, MaxItems - handed) :
         LET d == OnFilesDropped(variant, fs, paths) IN
         /\ d.mode # "reject"
         /\ handed + Len(d.files) <= MaxItems
         /\ \E ks \in KeyChoices(d.mode) :
              StartWorker(variant, d.mode, d.files, ks)
    /\ UNCHANGED <<variant, fs, encOf, gui>>

\* tar_path of _create_tar_archive
TarPath(dir_path) == Join(Dirname(dir_path), Basename(dir_path) \o TempArchive)

\* the end of one pass of the pre-processing loop; after the last pass,
\* total_files = len(processed_files)
PreAdvance(pf) ==
    IF idx = Len(files_to_process)
    THEN pc' = "loop" /\ idx' = 1 /\ total_files' = Len(pf)
    ELSE pc' = "pre" /\ idx' = idx + 1 /\ UNCHANGED total_files

\* pre-processing, a path that is no directory
PreFile ==
    /\ pc = "pre"
    /\ ~IsDir(fs, files_to_process[idx])
    /\ LET original_path == files_to_process[idx] IN
       /\ processed_files' = Append(processed_files, original_path)
       /\ file_map' = (original_path :> original_path) @@ file_map
       /\ PreAdvance(processed_files')
    /\ UNCHANGED <<variant, fs, mode, files_to_process, recipients_keys,
                   temp_files_to_cleanup, success_count, events, items,
                   preFailed, created, rmFailed, encOf, handed,
                   gui>>

\* pre-processing, a directory that _create_tar_archive archives
PreDirOk ==
    /\ pc = "pre"
    /\ IsDir(fs, files_to_process[idx])
    /\ LET original_path == files_to_process[idx]
           tar_file_path == TarPath(original_path)
       IN
       /\ events' = Append(events, ProgressSig(1, 100))
       /\ fs' = WriteFile(fs, tar_file_path, Tar(original_path))
       /\ temp_files_to_cleanup' = Append(temp_files_to_cleanup, tar_file_path)
       /\ created' = created \cup {tar_file_path}
       /\ processed_files' = Append(processed_files, tar_file_path)
       /\ file_map' = (tar_file_path :> original_path) @@ file_map
       /\ PreAdvance(processed_files')
    /\ UNCHANGED <<variant, mode, files_to_process, recipients_keys,
                   success_count, items, preFailed, rmFailed, encOf, handed,
                   gui>>

\* a mutant of the outer handler: total_files keeps its value
TotalAfterPreErrorKept == Len(files_to_process)

\* total_files as the outer except block sets it
TotalAfterPreError == 0

\* a mutant of the pre-processing failure: the exception is caught inside the
\* loop, the directory is staged as it is and the batch goes on
PreDirFailContinue ==
    /\ pc = "pre"
    /\ IsDir(fs, files_to_process[idx])
    /\ LET original_path == files_to_process[idx] IN
       /\ processed_files' = Append(processed_files, original_path)
       /\ file_map' = (original_path :> original_path) @@ file_map
       /\ PreAdvance(processed_files')
    /\ events' = events \o
         <<ProgressSig(1, 100),
           ErrorSig(PreProcessName, "Pre-process Error: Failed to create TAR archive")>>
    /\ preFailed' = TRUE
    /\ UNCHANGED <<variant, fs, mode, files_to_process, recipients_keys,
                   temp_files_to_cleanup, success_count, items, created,
                   rmFailed, encOf, handed,
                   gui>>

\* pre-processing, a directory whose archiving raises: the outer handler
\* emits the Pre-process error and run ends in its finally block.  The
\* archive may have been opened (and so exist) before the write failed.
PreDirFail ==
    /\ pc = "pre"
    /\ IsDir(fs, files_to_process[idx])
    /\ \E opened \in BOOLEAN :
         LET tar_path == TarPath(files_to_process[idx]) IN
         /\ fs' = IF opened THEN WriteFile(fs, tar_path, Partial) ELSE fs
    /\ total_files' = TotalAfterPreError
    /\ events' = events \o
         <<ProgressSig(1, 100),
           ErrorSig(PreProcessName, "Pre-process Error: Failed to create TAR archive"),
           FinishedSig(success_count, total_files', mode = "encrypt")>>
    /\ preFailed' = TRUE
    /\ pc' = "done"
    /\ UNCHANGED <<variant, mode, files_to_process, recipients_keys,
                   processed_files, file_map, temp_files_to_cleanup, idx,
                   success_count, items, created, rmFailed, encOf, handed,
                   gui>>

\* the tool outcomes to consider for an item: none when the command is never run
Outcomes(b) == IF b.raised THEN {"none"} ELSE ToolOutcomes(b.cmd, b.fs)

\* a mutant of the per-file handler: the exception of an item ends the loop
NextPcAbort(raised) ==
    IF raised \/ idx = Len(processed_files) THEN "cleanup" ELSE "loop"

\* a mutant of the loop: the cleanup follows the first item
NextPcEarlyCleanup(raised) == "cleanup"

\* where run goes after an item: the handler swallows the item's exception
NextPc(raised) == IF idx = Len(processed_files) THEN "cleanup" ELSE "loop"

\* a mutant of the success counter: an item that raised is counted too
CountedAlways(raised) == 1

\* success_count += 1 is reached only when nothing raised
Counted(raised) == IF raised THEN 0 ELSE 1

\* a mutant of the progress value: the index of the item, not the count done
ProgressOfIndex(i, total) == ProgressSig(i - 1, total)

\* progress = (i + 1) / total_files, i counting from 0: the idx-th item
\* reports idx / total_files
ProgressOf(i, total) == ProgressSig(i, total)

\* a mutant of the signals of an item: progress is reported before the error
ItemSignalsProgressFirst(raised, name, msg, i, total) ==
    <<ProgressOf(i, total)>>
        \o (IF raised THEN <<ErrorSig(name, msg)>> ELSE <<>>)

\* the signals of one pass: file_error.emit in the except block, when the
\* item raised, then progress_update.emit in the finally block
ItemSignals(raised, name, msg, i, total) ==
    (IF raised THEN <<ErrorSig(name, msg)>> ELSE <<>>)
        \o <<ProgressOf(i, total)>>

\* a mutant of the removals of the finally block: a removal that raises is
\* reported as an error of the item
RemovalSignalsReported(name, removeFails, attempted) ==
    IF removeFails /\ attempted # {}
    THEN <<ErrorSig(name, "Cleanup failed")>> ELSE <<>>

\* "try: os.remove(...) / except: pass": what a removal of the finally block
\* emits, also when it raises
RemovalSignals(name, removeFails, attempted) == <<>>

\* one pass of "for i, input_path in enumerate(processed_files)": the try
\* block, the except block and the finally block
ProcessItem ==
    /\ pc = "loop"
    /\ LET input_path == processed_files[idx]
           current_file_name == Basename(input_path)
           original_source_path == file_map[input_path]
       IN
       \E b \in {BuildCommand(variant, mode, fs, input_path, recipients_keys)} :
       \E tool \in Outcomes(b), renameFails \in BOOLEAN, removeFails \in BOOLEAN :
       \E t \in {TryItem(variant, mode, fs, input_path, original_source_path,
                         recipients_keys, tool, renameFails)} :
       \E fin \in {FinallyCleanup(variant, mode, t.fs, t.b, removeFails)} :
         /\ success_count' = success_count + Counted(t.raised)
         /\ events' = events
                \o ItemSignals(t.raised, current_file_name, t.msg,
                               idx, total_files)
                \o RemovalSignals(current_file_name, removeFails, fin.attempted)
         /\ fs' = fin.fs
         /\ rmFailed' = rmFailed \cup (IF removeFails THEN fin.attempted ELSE {})
         /\ items' = Append(items,
                [input |-> input_path, orig |-> original_source_path,
                 tool |-> tool, invoked |-> t.invoked, rc |-> t.rc,
                 raised |-> t.raised, msg |-> t.msg, out |-> t.out,
                 stderr |-> t.stderr,
                 cmd |-> t.b.cmd,
                 temp_decrypt_path |-> t.b.temp_decrypt_path,
                 out_base |-> t.b.output_path_base,
                 temp_output_path |-> t.b.temp_output_path,
                 temp_recipients_file |-> t.b.temp_recipients_file,
                 attempted |-> fin.attempted])
         /\ encOf' = IF mode = "encrypt" /\ tool = "ok" /\ ~t.raised
                     THEN (t.b.temp_output_path :> t.b.fs[input_path].data) @@ encOf
                     ELSE encOf
         /\ pc' = NextPc(t.raised)
         /\ idx' = IF pc' = "loop" THEN idx + 1 ELSE idx
    /\ UNCHANGED <<variant, mode, files_to_process, recipients_keys,
                   processed_files, file_map, temp_files_to_cleanup,
                   total_files, preFailed, created, handed,
                   gui>>

\* a mutant of the cleanup loop: the archives are left in place
CleanupSkipped(f, temps, failed) == f

\* "Cleanup: Remove temporary .tar.gz files": every registered file is
\* removed, except those whose os.remove raises (failed)
CleanupTemps(f, temps, failed) == [q \in DOMAIN f \ (temps \ failed) |-> f[q]]

\* the end of run: the cleanup loop (ageyub_ui registers archives, the other
\* variants have nothing to remove) and finished.emit
Finish ==
    /\ pc = "cleanup"
    /\ \E failed \in SUBSET Range(temp_files_to_cleanup) :
         /\ fs' = CleanupTemps(fs, Range(temp_files_to_cleanup), failed)
         /\ rmFailed' = rmFailed \cup failed
    /\ events' = Append(events,
                        FinishedSig(success_count, total_files, mode = "encrypt"))
    /\ pc' = "done"
    /\ UNCHANGED <<variant, mode, files_to_process, recipients_keys,
                   processed_files, file_map, temp_files_to_cleanup, idx,
                   success_count, total_files, items, preFailed, created,
                   encOf, handed,
                   gui>>

(***************************************************************************)
(* The window driving the workers: what the user can do (drop files, drop  *)
(* keys, Clear State, Clear Keys; a disabled widget receives no input) and *)
(* the delivery of the finished signal.                                    *)
(***************************************************************************)
workerVars == <<pc, mode, files_to_process, recipients_keys, processed_files,
                file_map, temp_files_to_cleanup, idx, success_count,
                total_files, events, items, preFailed, created, rmFailed,
                handed>>

\* the settings file the program may find when it starts
InitialSettings == {NoSettings, SavedSettings(<<KeyCmt, KeyPub>>, TRUE)}

\* what the user drops on a window in file mode, and in key mode
GuiCandidates == {FileR, FileTAge, FileUAge, DirD}
GuiDrops(n) ==
    {sq \in UNION {[1..k -> GuiCandidates] : k \in 1..n} :
        \A j, k \in 1..Len(sq) : j # k => sq[j] # sq[k]}
KeyDrops(v, m) ==
    KeyChoices(m) \cup (IF v = "yubiage_ui" THEN {<<DirD>>} ELSE {})

\* the paths dropEvent keeps: those that exist
Existing(f, paths) == SelectSeq(paths, LAMBDA q : Exists(f, q))

GuiInit ==
    /\ Constructed
    /\ gui \in {Loaded(InitialFs, s) : s \in InitialSettings}

\* the step a handler's result r makes: the window it leaves, and the new
\* worker when it started one
Handle(r) ==
    /\ gui' = r.g
    /\ IF r.started
       THEN /\ handed + Len(r.g.files_to_process) <= MaxItems
            /\ StartWorker(variant, r.g.current_action_mode,
                           r.g.files_to_process, r.g.keys)
       ELSE UNCHANGED workerVars
    /\ UNCHANGED <<variant, fs, encOf>>

\* SingleDropTarget.dropEvent in file, finished or error mode, and
\* _on_files_dropped
GuiDropFiles ==
    /\ ~gui.drop_disabled
    /\ gui.target_mode # "key"
    /\ handed < MaxItems
    /\ \E dropped \in GuiDrops(MaxItems - handed) :
         LET paths == Existing(fs, dropped)
             g0 == IF gui.target_mode \in {"finished", "error"}
                   THEN _reset_state_ui(gui, FALSE) ELSE gui
         IN
         /\ paths # <<>>
         /\ Handle(_on_files_dropped(variant, fs,
                                     [g0 EXCEPT !.dropped = paths], paths))

\* SingleDropTarget.dropEvent in key mode, and _on_keys_dropped_in_key_mode
GuiDropKeys ==
    /\ ~gui.drop_disabled
    /\ gui.target_mode = "key"
    /\ handed < MaxItems
    /\ \E dropped \in KeyDrops(variant, gui.current_action_mode) :
         LET paths == Existing(fs, dropped) IN
         /\ paths # <<>>
         /\ Handle(_on_keys_dropped_in_key_mode(variant, fs, gui, paths))

\* btn_clear.clicked: _reset_state_ui(clear_keys=False)
GuiClearState ==
    /\ ~gui.clear_disabled
    /\ handed < MaxItems
    /\ gui' = _reset_state_ui(gui, FALSE)
    /\ UNCHANGED <<variant, fs, encOf>>
    /\ UNCHANGED workerVars

\* btn_clear_keys.clicked: _clear_keys_action
GuiClearKeys ==
    /\ ~gui.clear_keys_disabled
    /\ handed < MaxItems
    /\ \E reply \in {"Yes", "No"} :
         gui' = _clear_keys_action(variant, gui, reply)
    /\ UNCHANGED <<variant, fs, encOf>>
    /\ UNCHANGED workerVars

\* the finished signal of the worker reaches _on_finished
GuiOnFinished ==
    /\ gui.running
    /\ pc = "done"
    /\ gui' = _on_finished(variant, gui, events[Len(events)].a,
                           events[Len(events)].b)
    /\ UNCHANGED <<variant, fs, encOf>>
    /\ UNCHANGED workerVars

GuiNext ==
    \/ GuiDropFiles \/ GuiDropKeys \/ GuiClearState \/ GuiClearKeys
    \/ GuiOnFinished
    \/ PreFile \/ PreDirOk \/ PreDirFail \/ ProcessItem \/ Finish

GuiSpec == GuiInit /\ [][GuiNext]_vars

\* The specification of the liveness properties.  While a batch runs the drop
\* target and both buttons are disabled, so the steps of a running batch are
\* the worker's and _on_finished; the drops are what starts the batches.  The
\* worker thread keeps running (every call of the external tool returns) and
\* the event loop delivers the queued finished signal.  The fairness of the
\* per-file loop is weak fairness of ProcessItem, written out: ProcessItem is
\* enabled exactly when pc = "loop", and its steps are those that append to
\* items.
GuiLiveNext ==
    \/ GuiDropFiles \/ GuiDropKeys
    \/ GuiOnFinished
    \/ PreFile \/ PreDirOk \/ PreDirFail \/ ProcessItem \/ Finish

GuiLiveSpec ==
    /\ GuiInit /\ [][GuiLiveNext]_vars
    /\ WF_vars(PreFile \/ PreDirOk \/ PreDirFail)
    /\ ([]<>(pc # "loop")
          \/ []<><<pc = "loop" /\ Len(items') = Len(items) + 1>>_vars)
    /\ WF_vars(Finish)
    /\ WF_vars(GuiOnFinished)

Next == StartBatch \/ PreFile \/ PreDirOk \/ PreDirFail \/ ProcessItem \/ Finish

Spec == Init /\ [][Next]_vars

(***************************************************************************)
(* Helpers of the properties.                                              *)
(***************************************************************************)
LastEvent == events[Len(events)]
IsProgress(e) == e.sig = "progress"
IsError(e) == e.sig = "error"
IsFinished(e) == e.sig = "finished"
ProgressEvents == SelectSeq(events, IsProgress)
ErrorEvents == SelectSeq(events, IsError)
FinishedEvents == SelectSeq(events, IsFinished)
ItemIds == 1..Len(items)

C2_CountsAndZeroTotal ==
    pc = "done" =>
        /\ IsFinished(LastEvent)
        /\ LastEvent.a <= LastEvent.b
        /\ (LastEvent.b = 0 <=> preFailed)

\* a batch whose pre-processing failed after one path was already staged
C2_Witness ==
    /\ pc = "done"
    /\ preFailed
    /\ processed_files # <<>>
    /\ LastEvent.b = 0

\* C3 (as claimed): every archive created during a batch is gone when finished
\* is emitted (a removal that was attempted and failed is not held against it).
C3_ArchivesRemovedOnEveryPath ==
    (pc = "done" /\ variant = "ageyub_ui") =>
        \A p \in created : ~Exists(fs, p) \/ p \in rmFailed

\* the name the claim gives a decrypted output: the input without its
\* four-character suffix, or the input plus ".decrypted"
NaturalTarget(p) ==
    IF IsAge(p) THEN Path(p.dir, SubSeq(p.name, 1, Len(p.name) - Len(AGE)))
    ELSE Plus(p, DECRYPTED)

\* C4 (as claimed): after a decrypt batch, every item whose invocation exited 0
\* with its output written has the plaintext on disk under the natural target
\* name (yubiage_ui: under the name the item was given, which is free of the
\* temporary suffix).
C4_DecryptedOutputPresent ==
    (pc = "done" /\ mode = "decrypt") =>
        \A k \in ItemIds :
            (items[k].tool = "ok" /\ ~items[k].raised) =>
                LET target == IF variant = "yubiage_ui" THEN items[k].out
                              ELSE NaturalTarget(items[k].input)
                IN  /\ Exists(fs, target)
                    /\ ~EndsWith(target.name, TempDecrypted)
                    /\ fs[target].data = Dec(fs[items[k].input].data)

\* C5 (as claimed): decrypting, with a faithful tool, a file that an earlier
\* batch produced by encrypting F leaves F's content on disk where the item
\* put its output.
C5_RoundTrip ==
    (pc = "done" /\ mode = "decrypt") =>
        \A k \in ItemIds :
            (/\ items[k].tool = "ok"
             /\ ~items[k].raised
             /\ items[k].input \in DOMAIN encOf
             /\ fs[items[k].input].data = Enc(encOf[items[k].input])) =>
                /\ Exists(fs, items[k].out)
                /\ fs[items[k].out].data = encOf[items[k].input]

\* C6 (as claimed): after an encrypt batch, a directory D whose invocation
\* exited 0 with its output written has D.Dir.age next to it, and neither the
\* archive (unless its removal failed) nor the raw output remains.
C6_DirectoryOutputAndNoLeftovers ==
    (pc = "done" /\ variant = "ageyub_ui" /\ mode = "encrypt") =>
        \A k \in ItemIds :
            (IsDir(fs, items[k].orig) /\ items[k].tool = "ok") =>
                /\ Exists(fs, Plus(items[k].orig, DirMarkerAge))
                /\ ~Exists(fs, items[k].input) \/ items[k].input \in rmFailed
                /\ ~Exists(fs, items[k].temp_output_path)

\* C7 (as claimed): after a decrypt batch no temporary decrypted file of the
\* batch remains.
C7_NoTempDecryptedRemains ==
    (pc = "done" /\ mode = "decrypt") =>
        \A k \in ItemIds :
            items[k].temp_decrypt_path # NoPath =>
                ~Exists(fs, items[k].temp_decrypt_path)

\* C7 (amended): after a decrypt batch, a temporary decrypted file of the batch
\* remains only if the worker attempted to remove it and the removal failed.
C7_TempDecryptedRemovedOrRemovalFailed ==
    (pc = "done" /\ mode = "decrypt") =>
        \A k \in ItemIds :
            (/\ items[k].temp_decrypt_path # NoPath
             /\ Exists(fs, items[k].temp_decrypt_path)) =>
                /\ items[k].temp_decrypt_path \in items[k].attempted
                /\ items[k].temp_decrypt_path \in rmFailed

\* a decrypt item whose tool exited non-zero leaving a partial output, which
\* the worker removed
C7_Witness ==
    /\ pc = "done"
    /\ mode = "decrypt"
    /\ \E k \in ItemIds :
         /\ items[k].tool = "fail_partial"
         /\ items[k].temp_decrypt_path \in items[k].attempted
         /\ ~Exists(fs, items[k].temp_decrypt_path)

\* "name (n).ext" for the path p = "name.ext"
Numbered(p, n) ==
    Path(p.dir, SplitExt(p.name)[1] \o <<" ", "(">> \o ToStr(n) \o <<")">>
                \o SplitExt(p.name)[2])

\* a step of the per-file loop of a yubiage_ui decrypt worker
DecryptStep ==
    /\ variant = "yubiage_ui"
    /\ mode = "decrypt"
    /\ pc = "loop"
    /\ Len(items') = Len(items) + 1

\* the file at p is still there after the step, unchanged
Kept(p) ==
    p \in DOMAIN fs' /\ fs'[p] = fs[p]

\* when the natural target of the item just processed existed, its output went
\* to the first free "name (n).ext", n counted from 1, a name that was free
FirstFreeNumbered ==
    LET it == items'[Len(items')]
        natural == NaturalTarget(it.input)
    IN
    (/\ it.tool = "ok"
     /\ ~it.raised
     /\ Exists(fs, natural)
     /\ NumMatch(SplitExt(natural.name)[1]) = {}) =>
        /\ \E n \in 1..(Cardinality(DOMAIN fs) + 1) :
             /\ it.out = Numbered(natural, n)
             /\ \A j \in 1..(n - 1) : Exists(fs, Numbered(natural, j))
        /\ ~Exists(fs, it.out)
        /\ Exists(fs', it.out)
        /\ fs'[it.out].data = Dec(fs[it.input].data)

\* C8 (as claimed): on decrypt in yubiage_ui a collision at the natural target
\* sends the output to the first free "name (n).ext", and no step of any
\* sequence of decrypts overwrites or removes a file that existed before it.
C8_NoExistingFileTouched ==
    [][DecryptStep => (FirstFreeNumbered /\ \A p \in DOMAIN fs : Kept(p))]_vars

\* C8 (amended): on decrypt in yubiage_ui a collision at the natural target
\* sends the output to the first free "name (n).ext", and no step of any
\* sequence of decrypts overwrites or removes a file that existed before it,
\* other than a file at the worker's own temporary output path
\* <input>.temp_decrypted_<pid>.
C8_CollisionSafeDecrypt ==
    [][DecryptStep =>
         /\ FirstFreeNumbered
         /\ \A p \in DOMAIN fs :
              p # items'[Len(items')].temp_decrypt_path => Kept(p)]_vars

\* r.txt.age decrypted twice next to r.txt: "r (1).txt", then "r (2).txt"
C8_Witness ==
    /\ variant = "yubiage_ui"
    /\ pc = "done"
    /\ mode = "decrypt"
    /\ Len(items) = 1
    /\ items[1].out = Path(W, <<"r"," ","(","2",")",".","t","x","t">>)
    /\ Exists(fs, Path(W, <<"r"," ","(","1",")",".","t","x","t">>))
    /\ Exists(fs, items[1].out)
    /\ fs[FileR] = InitialFs[FileR]

\* C9: when pre-processing fails no work item is processed (the tool is never
\* invoked), exactly one error is emitted, named Pre-process, and finished
\* reports successCount = 0 and totalCount = 0, once.
C9_PreProcessFailureAborts ==
    (pc = "done" /\ preFailed) =>
        /\ items = <<>>
        /\ Len(ErrorEvents) = 1
        /\ ErrorEvents[1].name = PreProcessName
        /\ Len(FinishedEvents) = 1
        /\ IsFinished(LastEvent)
        /\ LastEvent.a = 0
        /\ LastEvent.b = 0

\* a batch of two paths whose first directory could not be archived
C9_Witness ==
    /\ pc = "done"
    /\ preFailed
    /\ Len(files_to_process) = 2
    /\ processed_files = <<>>

\* the directories of the batch that pre-processing archives
ArchivedDirs ==
    IF variant = "ageyub_ui" /\ mode = "encrypt"
    THEN {k \in 1..Len(files_to_process) : IsDir(fs, files_to_process[k])}
    ELSE {}

\* C10 (as claimed): a batch of N items emits exactly N progress events, the
\* i-th with value i/N.
C10_ExactlyNProgressEvents ==
    (pc = "done" /\ ~preFailed) =>
        LET N == Len(files_to_process) IN
        /\ Len(ProgressEvents) = N
        /\ \A i \in 1..N :
             /\ ProgressEvents[i].b > 0
             /\ ProgressEvents[i].a * N = i * ProgressEvents[i].b

\* C10 (amended): the per-file loop of a batch of N items emits exactly N
\* progress events, the i-th with value i/N, the value 1 once, as the last
\* signal before finished, whichever items fail; before them, pre-processing
\* emits one event of value 1/100 for each directory it archives, and these
\* are the only progress events of a batch whose pre-processing fails.
C10_ProgressPerItemAfterArchiving ==
    pc = "done" =>
        LET N == Len(files_to_process)
            d == Cardinality(ArchivedDirs)
            P == ProgressEvents
        IN
        /\ IsFinished(LastEvent)
        /\ ~preFailed =>
             /\ Len(P) = d + N
             /\ \A j \in 1..d : P[j].a = 1 /\ P[j].b = 100
             /\ \A i \in 1..N :
                  /\ P[d + i].b > 0
                  /\ P[d + i].a * N = i * P[d + i].b
             /\ Cardinality({j \in 1..Len(P) : P[j].a = P[j].b}) = 1
             /\ Len(events) >= 2
             /\ events[Len(events) - 1] = P[d + N]
        /\ preFailed =>
             /\ Len(P) \in 1..d
             /\ \A j \in 1..Len(P) : P[j].a = 1 /\ P[j].b = 100

\* an archiving batch of a directory and a file, the first item failing
C10_Witness ==
    /\ pc = "done"
    /\ variant = "ageyub_ui"
    /\ ~preFailed
    /\ Len(items) = 2
    /\ ArchivedDirs # {}
    /\ \E k \in ItemIds : items[k].raised
    /\ Len(ProgressEvents) = 3

\* the key file at k contributes nothing: it is missing, or each of its lines
\* is blank or a comment
NoKeyMaterial(f, k) ==
    \/ ~Exists(f, k)
    \/ \A n \in 1..Len(f[k].data) :
         LET line == StripLine(f[k].data[n]) IN
         line = <<>> \/ line[1] = "#"

\* C11: an encrypt item whose key files are all missing or comment-only fails
\* with the "empty or invalid" validation error, reported as its per-file
\* error, and the tool is not invoked for it.
C11_EmptyKeyMaterialFailsBeforeTool ==
    (/\ mode = "encrypt"
     /\ \A n \in 1..Len(recipients_keys) : NoKeyMaterial(fs, recipients_keys[n])) =>
        /\ \A k \in ItemIds :
             /\ items[k].raised
             /\ items[k].msg = "Recipient key file is empty or invalid."
             /\ ~items[k].invoked
             /\ items[k].tool = "none"
        /\ success_count = 0
        /\ ~preFailed =>
             /\ Len(ErrorEvents) = Len(items)
             /\ \A k \in ItemIds :
                  /\ ErrorEvents[k].msg = items[k].msg
                  /\ ErrorEvents[k].name = Basename(items[k].input)

\* an encrypt item given a comment-only key file and a missing one
C11_Witness ==
    /\ mode = "encrypt"
    /\ recipients_keys = <<KeyCmt, KeyGone>>
    /\ ~Exists(fs, KeyGone)
    /\ items # <<>>
    /\ items[1].raised
    /\ ~items[1].invoked

\* the name of p ends in ".age", whatever the case of its letters
EndsAgeAnyCase(p) ==
    LET n == p.name IN
    /\ Len(n) >= 4
    /\ n[Len(n) - 3] = "."
    /\ n[Len(n) - 2] \in {"a", "A"}
    /\ n[Len(n) - 1] \in {"g", "G"}
    /\ n[Len(n)] \in {"e", "E"}

\* no worker is running or about to run
WorkerAtRest == pc \in {"idle", "done"}

\* C12: while the last drop is a batch with a path ending in .age and a plain
\* file that does not, the drop stands rejected: no worker runs, no key is
\* requested, and the worker's batch is not that drop.
C12_MixedDropRejected ==
    (/\ \E k \in 1..Len(gui.dropped) : EndsAgeAnyCase(gui.dropped[k])
     /\ \E k \in 1..Len(gui.dropped) :
          ~EndsAgeAnyCase(gui.dropped[k]) /\ IsFile(fs, gui.dropped[k])) =>
        /\ gui.verdict = "rejected"
        /\ ~gui.running
        /\ WorkerAtRest
        /\ ~gui.key_pending
        /\ gui.target_mode # "key"
        /\ files_to_process # gui.dropped

\* the mixed batch that ageyubi stores before it rejects it
C12_Witness ==
    /\ variant = "ageyubi"
    /\ gui.dropped = <<FileUAge, FileR>>
    /\ gui.verdict = "rejected"
    /\ gui.files_to_process = gui.dropped

\* C13: a batch that is accepted (a key is requested for it or a worker runs
\* it) has exactly one of the two modes; a worker runs in decrypt mode only
\* if every path of its batch ends in .age, in any case, and in encrypt mode
\* only if none does.
C13_ModeMatchesSuffixes ==
    /\ pc # "idle" =>
         /\ mode \in {"encrypt", "decrypt"}
         /\ mode = "decrypt" =>
              \A k \in 1..Len(files_to_process) : EndsAgeAnyCase(files_to_process[k])
         /\ mode = "encrypt" =>
              \A k \in 1..Len(files_to_process) : ~EndsAgeAnyCase(files_to_process[k])
    /\ (gui.running \/ gui.key_pending) =>
         /\ gui.current_action_mode \in {"encrypt", "decrypt"}
         /\ gui.current_action_mode = "decrypt" =>
              \A k \in 1..Len(gui.files_to_process) :
                  EndsAgeAnyCase(gui.files_to_process[k])
         /\ gui.current_action_mode = "encrypt" =>
              \A k \in 1..Len(gui.files_to_process) :
                  ~EndsAgeAnyCase(gui.files_to_process[k])
    /\ gui.running =>
         /\ mode = gui.current_action_mode
         /\ files_to_process = gui.files_to_process

\* a decrypt worker for two .age files, one of them named in upper case
C13_Witness ==
    /\ gui.running
    /\ mode = "decrypt"
    /\ Len(files_to_process) = 2
    /\ FileUAge \in Range(files_to_process)

\* a directory whose name ends in .age
DirAge == Path(W, <<"x",".","a","g","e">>)

\* C14: in yubiage_ui a drop with a path ending in .age that has more than
\* one path, or whose single path is a directory, is rejected, and every
\* worker in decrypt mode has exactly one input, a regular file ending in .age.
C14_SingleFileDecrypt ==
    variant = "yubiage_ui" =>
        /\ (/\ \E k \in 1..Len(gui.dropped) : EndsAgeAnyCase(gui.dropped[k])
            /\ Len(gui.dropped) > 1 \/ IsDir(fs, gui.dropped[1])) =>
                /\ gui.verdict = "rejected"
                /\ ~gui.running
                /\ ~gui.key_pending
        /\ OnFilesDropped(variant, (DirAge :> Directory) @@ fs, <<DirAge>>) = Rejected
        /\ (pc # "idle" /\ mode = "decrypt") =>
                /\ Len(files_to_process) = 1
                /\ IsFile(fs, files_to_process[1])
                /\ EndsAgeAnyCase(files_to_process[1])

\* a drop of two .age files is rejected: no key is requested for it
C14_Witness ==
    /\ variant = "yubiage_ui"
    /\ gui.dropped = <<FileTAge, FileUAge>>
    /\ gui.verdict = "rejected"
    /\ ~gui.key_pending
    /\ pc = "idle"

\* the fields and settings a running batch was started with
BatchState == <<gui.files_to_process, gui.keys, gui.recipients_keys,
                gui.settings, mode, files_to_process, recipients_keys, handed>>

\* C15: from _start_process to _on_finished the drop target and both clear
\* buttons are disabled, so no step starts a second worker or changes
\* files_to_process, keys, recipients_keys or the saved settings; the batch
\* ends only when the finished signal of its worker is handled.
C15_OneBatchAtATime ==
    [][gui.running =>
          /\ gui.drop_disabled /\ gui.clear_disabled /\ gui.clear_keys_disabled
          /\ IF gui'.running
             THEN BatchState' = BatchState
             ELSE pc = "done" /\ UNCHANGED workerVars]_vars

\* a worker is in the middle of a batch of two while a key is remembered
C15_Witness ==
    /\ gui.running
    /\ pc = "loop"
    /\ idx = 2
    /\ Len(gui.files_to_process) = 2
    /\ gui.recipients_keys # <<>>
    /\ gui.drop_disabled /\ gui.clear_disabled /\ gui.clear_keys_disabled

\* the signals of pre-processing: the 0.01 progress of a directory and the
\* Pre-process error
PreSignal(e) ==
    \/ e = ProgressSig(1, 100)
    \/ IsError(e) /\ e.name = PreProcessName

\* the signals of the per-file loop
LoopSignals == SelectSeq(events, LAMBDA e : ~IsFinished(e) /\ ~PreSignal(e))

\* what the first k items must have emitted: for each, its error when it
\* raised, then its progress k / N
RECURSIVE ExpectedSignals(_)
ExpectedSignals(k) ==
    IF k = 0 THEN <<>>
    ELSE ExpectedSignals(k - 1)
            \o (IF items[k].raised
                THEN <<ErrorSig(Basename(items[k].input), items[k].msg)>>
                ELSE <<>>)
            \o <<ProgressSig(k, Len(processed_files))>>

\* C16 (as claimed): when the batch is done, there is exactly one progress
\* event for each work item, every error event is directly followed by the
\* progress event of its item, and no two error events are adjacent.
C16_OneProgressPerItem ==
    pc = "done" =>
        LET S == SelectSeq(events, LAMBDA e : ~IsFinished(e)) IN
        /\ Len(ProgressEvents) = Len(files_to_process)
        /\ \A j \in 1..Len(S) :
             IsError(S[j]) => j < Len(S) /\ IsProgress(S[j + 1])

\* C16 (amended): the work items are staged and processed in the order of
\* the batch; the signals of the per-file loop are, item after item, the
\* error of the item if it raised followed by its one progress event; the
\* signals of pre-processing (in ageyub_ui, a progress event of 0.01 for each
\* directory and the Pre-process error) all come before them.
C16_ItemSignalsInOrder ==
    /\ (pc \in {"loop", "cleanup"} \/ (pc = "done" /\ ~preFailed)) =>
         /\ Len(processed_files) = Len(files_to_process)
         /\ \A k \in 1..Len(processed_files) :
              file_map[processed_files[k]] = files_to_process[k]
    /\ \A k \in ItemIds : items[k].input = processed_files[k]
    /\ LoopSignals = ExpectedSignals(Len(items))
    /\ \A j, k \in 1..Len(events) :
         (j < k /\ PreSignal(events[k])) => PreSignal(events[j])

\* a finished batch of a directory and a file in ageyub_ui whose first item
\* failed and whose second did not
C16_Witness ==
    /\ pc = "done"
    /\ variant = "ageyub_ui"
    /\ Len(items) = 2
    /\ items[1].raised
    /\ ~items[2].raised
    /\ Len(ErrorEvents) = 1
    /\ Len(ProgressEvents) = 3

\* the phases that can follow a phase of run: pre-processing, the per-file
\* loop (invocation and post-processing of one item in each pass), the
\* cleanup loop, and the end
PhasesAfter(p) ==
    CASE p = "idle" -> {"pre", "loop"}
      [] p = "pre" -> {"pre", "loop", "done"}
      [] p = "loop" -> {"loop", "cleanup"}
      [] p = "cleanup" -> {"done"}
      [] p = "done" -> {"pre", "loop"}      \* the worker of the next batch
      [] OTHER -> {}

\* C17: a batch goes through pre-processing, one pass of the loop for each
\* item, cleanup and the end, in that order (pre-processing that fails goes
\* to the end at once); archives are created only in pre-processing, before
\* any tool invocation; an archive is removed only in the cleanup, after the
\* last item was post-processed; finished is emitted exactly once, by the
\* step that ends the batch, as the last signal.
C17_BatchPhases ==
    /\ [][/\ pc' \in PhasesAfter(pc)
          /\ (pc = "pre" /\ pc' = "done") => preFailed'
          /\ (pc = "pre" /\ pc' = "loop") => idx = Len(files_to_process)
          /\ created' \ created # {} => (pc = "pre" /\ items = <<>>)
          /\ (\E q \in created : Exists(fs, q) /\ ~Exists(fs', q)) =>
                (pc = "cleanup" /\ Len(items) = Len(processed_files))
          /\ Len(items') > Len(items) => (pc = "loop" /\ Len(items') = Len(items) + 1)
          /\ pc' = "done" =>
                (Len(events') > Len(events) /\ IsFinished(events'[Len(events')]))
       ]_vars
    /\ [](Len(FinishedEvents) = IF pc = "done" THEN 1 ELSE 0)
    /\ [](pc = "done" => IsFinished(LastEvent))
    /\ []((pc = "done" /\ ~preFailed) => Len(items) = Len(files_to_process))

\* a finished batch of two items in ageyub_ui whose archive was created and
\* has been removed
C17_Witness ==
    /\ pc = "done"
    /\ variant = "ageyub_ui"
    /\ ~preFailed
    /\ Len(items) = 2
    /\ created # {}
    /\ \A q \in created : ~Exists(fs, q)

\* item k: the tool exited 0 and the file it was told to write is not there
OutputMissing(k) ==
    /\ items[k].tool = "exit0_no_output"
    /\ items[k].invoked
    /\ items[k].rc = 0
    /\ ~Exists(fs, CmdOutput(items[k].cmd))

\* C18 (as claimed): an item whose tool exited 0 without the output file has
\* a per-file error and is not counted in success_count.
C18_MissingOutputIsAnError ==
    /\ \A k \in ItemIds :
         OutputMissing(k) =>
            /\ items[k].raised
            /\ \E j \in 1..Len(events) :
                 IsError(events[j]) /\ events[j].name = Basename(items[k].input)
    /\ success_count <= Cardinality({k \in ItemIds : ~OutputMissing(k)})

\* item k: the tool was run and exited non-zero
ToolFailed(k) == items[k].invoked /\ items[k].rc # 0

\* the generic message for exit code rc
GenericMessage(rc) == "Failed, exit code: " \o ToString(rc)

\* text m is raw without the whitespace around it
Trims(raw, m) ==
    \E i \in 1..(Len(raw) + 1), j \in 0..Len(raw) :
        /\ m = SubSeq(raw, i, j)
        /\ \A n \in 1..(i - 1) : SubSeq(raw, n, n) \in Whitespace
        /\ \A n \in (j + 1)..Len(raw) : SubSeq(raw, n, n) \in Whitespace
        /\ m # "" =>
             /\ SubSeq(m, 1, 1) \notin Whitespace
             /\ SubSeq(m, Len(m), Len(m)) \notin Whitespace

\* the items that raised, and their error events
RaisedItems == {k \in ItemIds : items[k].raised}
ItemErrors == SelectSeq(events, LAMBDA e : IsError(e) /\ ~PreSignal(e))

\* C19 (as claimed): an item whose tool exited non-zero is no success and has
\* one error whose message is the captured stderr text verbatim when that is
\* not empty, and the generic exit-code message otherwise.
C19_StderrVerbatim ==
    \A k \in ItemIds :
        ToolFailed(k) =>
            /\ items[k].raised
            /\ items[k].msg = IF items[k].stderr # "" THEN items[k].stderr
                              ELSE GenericMessage(items[k].rc)

\* C19 (amended): an item whose tool exited non-zero is not counted, and
\* exactly one error is emitted for it, with the stderr text stripped of the
\* whitespace around it when that leaves anything, and with the generic
\* exit-code message otherwise.
C19_StderrStripped ==
    /\ \A k \in ItemIds :
         ToolFailed(k) =>
            /\ items[k].raised
            /\ Trims(items[k].stderr, "") =>
                    items[k].msg = GenericMessage(items[k].rc)
            /\ ~Trims(items[k].stderr, "") =>
                    (items[k].msg # "" /\ Trims(items[k].stderr, items[k].msg))
            /\ LET n == Cardinality({j \in RaisedItems : j <= k}) IN
               /\ n <= Len(ItemErrors)
               /\ ItemErrors[n].name = Basename(items[k].input)
               /\ ItemErrors[n].msg = items[k].msg
    /\ Len(ItemErrors) = Cardinality(RaisedItems)
    /\ success_count = Cardinality(ItemIds \ RaisedItems)

\* a finished batch whose first item failed with text on stderr and whose
\* second failed with nothing on it
C19_Witness ==
    /\ pc = "done"
    /\ Len(items) = 2
    /\ items[1].tool = "fail_stderr"
    /\ items[1].msg = "age: error"
    /\ items[2].tool = "fail_silent"
    /\ items[2].msg = "Failed, exit code: 1"

\* C20 (as claimed): between items and when the batch is done, no temporary
\* recipients file written for an item of the batch is on disk.
C20_NoRecipientsFileRemains ==
    \A k \in ItemIds :
        items[k].temp_recipients_file # NoPath =>
            ~Exists(fs, items[k].temp_recipients_file)

\* C20 (amended): between items and when the batch is done, a temporary
\* recipients file written for an item remains only if the finally block of
\* an item attempted to remove it and that removal failed; this is so
\* whether the item succeeded, its key material was empty, the tool could
\* not be started or the tool exited non-zero.
C20_RecipientsFileRemovedOrRemovalFailed ==
    \A k \in ItemIds :
        items[k].temp_recipients_file # NoPath =>
            /\ items[k].temp_recipients_file \in items[k].attempted
            /\ Exists(fs, items[k].temp_recipients_file) =>
                    items[k].temp_recipients_file \in rmFailed

\* an encrypt batch whose first item could not start the tool and whose
\* second item's tool exited non-zero, the recipients file of both removed
C20_Witness ==
    /\ pc = "done"
    /\ mode = "encrypt"
    /\ Len(items) = 2
    /\ items[1].tool = "spawn_error"
    /\ items[2].tool = "fail_stderr"
    /\ \A k \in ItemIds :
         /\ items[k].temp_recipients_file \in items[k].attempted
         /\ ~Exists(fs, items[k].temp_recipients_file)

\* C21: once the removal of a temporary file (archive, recipients file,
\* temporary decrypted file) has failed, the error events are still only
\* those of the items whose try block raised, success_count and total_files
\* are what they are without the failure, and the batch still goes through
\* all its items and ends with finished carrying those counts.
C21_CleanupFailuresNotSurfaced ==
    rmFailed # {} =>
        /\ Len(ItemErrors) = Cardinality(RaisedItems)
        /\ \A k \in RaisedItems :
             \/ ~items[k].invoked
             \/ items[k].rc # 0
             \/ items[k].tool \in {"ok", "exit0_no_output"}
        /\ success_count = Cardinality(ItemIds \ RaisedItems)
        /\ ~preFailed => total_files = Len(processed_files)
        /\ (pc = "done" /\ ~preFailed) =>
             /\ Len(items) = Len(files_to_process)
             /\ LastEvent = FinishedSig(success_count, Len(files_to_process),
                                        mode = "encrypt")

\* a finished batch of two: the removal after the first item failed, and the
\* second item succeeded
C21_Witness ==
    /\ pc = "done"
    /\ Len(items) = 2
    /\ items[1].attempted # {}
    /\ items[1].attempted \subseteq rmFailed
    /\ ~items[1].raised
    /\ ~items[2].raised
    /\ success_count = 2

\* C22 (as claimed): the error event of every item that raised carries the
\* base name of the original path of the item (the dropped file or
\* directory) and the message of the failure.
C22_ErrorNamesOriginalPath ==
    \A k \in RaisedItems :
        LET n == Cardinality({j \in RaisedItems : j <= k}) IN
        /\ n <= Len(ItemErrors)
        /\ ItemErrors[n].name = Basename(items[k].orig)
        /\ ItemErrors[n].msg = items[k].msg

\* C23 (as claimed): the step of _on_finished for a batch in which some item
\* failed leaves the drop target in error mode.
C23_FailureCountShown ==
    [][(/\ gui.running
        /\ ~gui'.running
        /\ LastEvent.b > 0
        /\ LastEvent.a < LastEvent.b) =>
            gui'.target_mode = "error"]_vars

\* item k is the decrypt of a file named *.Dir.age, in any case, whose tool
\* exited 0
DirOriginDecrypted(k) ==
    /\ mode = "decrypt"
    /\ EndsWith(Lower(items[k].input.name), DIR_AGE)
    /\ items[k].invoked
    /\ items[k].rc = 0

\* a directory-origin file with an upper-case name, and one pass of a
\* variant's loop that decrypts it, the tool writing its output
DirOriginUpper == Path(W, <<"X",".","D","I","R",".","A","G","E">>)
DecryptUpper(v) ==
    TryItem(v, "decrypt", (DirOriginUpper :> File(Enc(Tar(DirD)))) @@ InitialFs,
            DirOriginUpper, DirOriginUpper, <<KeyId>>, "ok", FALSE)

C25_ArgumentVector ==
    \A k \in ItemIds :
        LET cmd == items[k].cmd
            n == Len(recipients_keys)
        IN
        cmd # <<>> =>
            IF mode = "encrypt"
            THEN /\ Len(cmd) = 7
                 /\ cmd[1] = ArgAge /\ cmd[2] = ArgA /\ cmd[3] = ArgO
                 /\ cmd[4] = Plus(items[k].input, AGE)
                 /\ cmd[5] = ArgR
                 /\ cmd[6] = items[k].temp_recipients_file
                 /\ cmd[6] # NoPath
                 /\ cmd[7] = items[k].input
            ELSE /\ Len(cmd) = 5 + 2 * n
                 /\ cmd[1] = ArgAge /\ cmd[2] = ArgD /\ cmd[3] = ArgO
                 /\ cmd[4] = IF variant = "ageyubi"
                             THEN items[k].out_base
                             ELSE items[k].temp_decrypt_path
                 /\ cmd[4] # NoPath
                 /\ \A j \in 1..n :
                      /\ cmd[3 + 2 * j] = ArgI
                      /\ cmd[4 + 2 * j] = recipients_keys[j]
                 /\ cmd[Len(cmd)] = items[k].input

\* a decrypt item that ran the tool with two identities
C25_Witness ==
    /\ mode = "decrypt"
    /\ Len(items) = 1
    /\ items[1].invoked
    /\ Len(items[1].cmd) = 9
    /\ items[1].cmd[6] = KeyId2
    /\ items[1].cmd[8] = KeyId

\* the settings file holds the text of exactly the in-memory recipients, and
\* RememberKeys is set exactly when there are any
StoreMatches(g) ==
    /\ g.settings.paths = JoinPaths(g.recipients_keys)
    /\ g.settings.remember <=> g.recipients_keys # <<>>

\* C26: every step that changes recipients_keys or the settings file (a key
\* drop in encrypt mode, a confirmed Clear Keys) leaves the file holding the
\* in-memory recipients_keys, with RememberKeys true after a key drop and
\* false after a clear.
C26_StoreFollowsRecipients ==
    [][(gui'.recipients_keys # gui.recipients_keys
            \/ gui'.settings # gui.settings) =>
          /\ StoreMatches(gui')
          /\ gui.key_pending \/ gui'.recipients_keys = <<>>
          /\ gui'.recipients_keys # <<>> => gui.current_action_mode = "encrypt"
       ]_vars

\* the recipients were replaced by a key drop and the file was rewritten
C26_Witness ==
    /\ gui.recipients_keys = <<KeyCmt>>
    /\ gui.settings = [remember |-> TRUE, paths |-> PathStr(KeyCmt)]
    /\ gui.running

\* the lists of key files a user can have dropped before closing the window
MaxKeys == 2
KeyLists ==
    UNION {[1..n -> {KeyCmt, KeyPub, KeySemi}] : n \in 0..MaxKeys}

\* what a new window's _load_key_settings restores from what
\* _save_key_settings(keys, True) wrote
RoundTrip(f, keys) == Loaded(f, SavedSettings(keys, TRUE)).recipients_keys

\* C27: for every list of existing key files, loading after
\* _save_key_settings(keys, True) restores recipients_keys equal to the list.
C27_SaveLoadRoundTrip ==
    \A keys \in KeyLists :
        Existing(fs, keys) = keys => RoundTrip(fs, keys) = keys

\* the round trip of the lists whose paths hold no ';'
C27_RoundTripWithoutSeparator ==
    \A keys \in KeyLists :
        (Existing(fs, keys) = keys /\ \A i \in 1..Len(keys) : keys[i] # KeySemi)
            => RoundTrip(fs, keys) = keys

\* a step of the window that starts a batch of mode m
BatchStarts(m) == ~gui.running /\ gui'.running /\ mode' = m

\* the identity files among the modelled keys
IdentityFiles == {KeyId, KeyId2}

\* C28: a decrypt batch starts only from a key drop, with the dropped paths
\* as its identities, and that drop changes neither the window's
\* recipients_keys nor the settings file; the identity paths never appear in
\* recipients_keys or in the settings file, and an encrypt batch runs with
\* recipients_keys.
C28_IdentitiesForOneBatch ==
    /\ [](/\ \A i \in 1..Len(gui.recipients_keys) :
                 gui.recipients_keys[i] \notin IdentityFiles
          /\ \A t \in Range(Split(gui.settings.paths)) :
                 ParsePath(t) \notin IdentityFiles)
    /\ [][/\ BatchStarts("decrypt") =>
                /\ gui.key_pending
                /\ gui.current_action_mode = "decrypt"
                /\ \E dropped \in KeyDrops(variant, "decrypt") :
                      recipients_keys' = Existing(fs, dropped)
                /\ gui'.recipients_keys = gui.recipients_keys
                /\ gui'.settings = gui.settings
          /\ BatchStarts("encrypt") =>
                recipients_keys' = gui'.recipients_keys
         ]_vars

\* a decrypt batch runs with the dropped identities while other keys are
\* remembered
C28_Witness ==
    /\ gui.running
    /\ mode = "decrypt"
    /\ recipients_keys = <<KeyId2, KeyId>>
    /\ gui.recipients_keys = <<KeyCmt, KeyPub>>
    /\ gui.settings.remember

\* the output an item's tool writes before any rename: the raw
\* <archive>.tar.gz.age of a directory item of ageyub_ui, the
\* *.temp_decrypted_* file of a decrypt item; NoPath when the tool writes the
\* final name
Intermediate(k) ==
    IF mode = "decrypt" THEN items[k].temp_decrypt_path
    ELSE IF variant = "ageyub_ui" /\ items[k].input # items[k].orig
    THEN items[k].temp_output_path
    ELSE NoPath

\* C29: when the batch has ended, an intermediate output that is still on
\* disk under its intermediate name (it was not renamed) has been the subject
\* of a removal attempt.
C29_IntermediateRenamedOrRemoved ==
    pc = "done" =>
        \A k \in ItemIds :
            (Intermediate(k) # NoPath /\ Exists(fs, Intermediate(k))) =>
                Intermediate(k) \in items[k].attempted

\* the same, for decrypt batches, whose intermediate the finally block removes
C29_DecryptIntermediateRenamedOrRemoved ==
    (pc = "done" /\ mode = "decrypt") =>
        \A k \in ItemIds :
            (Intermediate(k) # NoPath /\ Exists(fs, Intermediate(k))) =>
                Intermediate(k) \in items[k].attempted

\* "base (n)ext" in a directory
Suffixed(dir, base, ext, n) ==
    Path(dir, base \o <<" ", "(">> \o ToStr(n) \o <<")">> \o ext)

\* the largest number a suffix can reach in a run
MaxSuffix == 12

\* C30: when the natural target of a yubiage_ui decrypt item exists and its
\* name is "base (k)ext", the output goes to "base (m)ext" with m the least
\* integer above k whose name is free; the count does not restart at 1.
C30_CountsOnFromSuffix ==
    [][DecryptStep =>
         \E it \in {items'[Len(items')]} :
         \E natural \in {NaturalTarget(it.input)} :
         \E se \in {SplitExt(natural.name)} :
         (/\ it.tool = "ok"
          /\ ~it.raised
          /\ Exists(fs, natural)
          /\ se[1] # <<>>
          /\ se[1][Len(se[1])] = ")") =>
             \A k \in 0..MaxSuffix :
                 \E tail \in {<<" ", "(">> \o ToStr(k) \o <<")">>} :
                 (/\ Len(se[1]) >= Len(tail)
                  /\ SubSeq(se[1], Len(se[1]) - Len(tail) + 1, Len(se[1])) = tail) =>
                     \E base \in {SubSeq(se[1], 1, Len(se[1]) - Len(tail))} :
                     \E m \in (k + 1)..(MaxSuffix + 1) :
                         /\ it.out = Suffixed(natural.dir, base, se[2], m)
                         /\ \A j \in (k + 1)..(m - 1) :
                              Exists(fs, Suffixed(natural.dir, base, se[2], j))
                         /\ ~Exists(fs, it.out)
                         /\ Exists(fs', it.out)
      ]_vars

\* "n (1).b.age" decrypted next to "n (1).b" and "n (2).b": "n (3).b"
C30_Witness ==
    /\ variant = "yubiage_ui"
    /\ pc = "done"
    /\ mode = "decrypt"
    /\ Len(items) = 1
    /\ items[1].input = FileNAge
    /\ items[1].out = Path(W, <<"n"," ","(","3",")",".","b">>)
    /\ Exists(fs, items[1].out)

\* a line that begins with the comment marker
BeginsWithMarker(l) == l # <<>> /\ l[1] = "#"

\* the recipient lines of the modelled key files, comment lines left out:
\* k/pub holds "# k" and "age1", k/cmt holds " #c" only, k/a;b holds "age1s",
\* and the key file that does not exist contributes nothing
RecipientLines(q) ==
    IF q = KeyPub THEN << <<"a","g","e","1">> >>
    ELSE IF q = KeySemi THEN << <<"a","g","e","1","s">> >>
    ELSE <<>>

RECURSIVE ExpectedRecipients(_)
ExpectedRecipients(ks) ==
    IF ks = <<>> THEN <<>>
    ELSE RecipientLines(ks[1]) \o ExpectedRecipients(Tail(ks))

\* key lists an encrypt worker can be given
RecipientLists ==
    UNION {[1..n -> {KeyCmt, KeyPub, KeySemi, KeyGone}] : n \in 0..MaxKeys}

\* C31: the recipients file of an encrypt item holds no line that begins with
\* '#', and holds the remaining lines of each existing key file in key-list
\* order, a key file without such lines adding nothing; checked on the file
\* an item left on disk (its removal failed) and on what the worker writes
\* for every key list (the key files never change, so once, before the first
\* batch).
C31_RecipientsFileContent ==
    /\ \A k \in ItemIds :
          (/\ items[k].temp_recipients_file # NoPath
           /\ Exists(fs, items[k].temp_recipients_file)) =>
              \E text \in {fs[items[k].temp_recipients_file].data} :
                  /\ \A i \in 1..Len(text) : ~BeginsWithMarker(text[i])
                  /\ text = ExpectedRecipients(recipients_keys)
    /\ pc = "idle" =>
          \A ks \in RecipientLists :
              \E text \in {RecipientsText(fs, ks)} :
                  /\ \A i \in 1..Len(text) : ~BeginsWithMarker(text[i])
                  /\ text = ExpectedRecipients(ks)

\* an encrypt item whose recipients file stayed on disk, its removal having
\* failed: it holds the one recipient line of k/pub
C31_Witness ==
    /\ pc = "done"
    /\ mode = "encrypt"
    /\ recipients_keys = <<KeyCmt, KeyPub>>
    /\ \E k \in ItemIds :
         /\ items[k].temp_recipients_file \in rmFailed
         /\ Exists(fs, items[k].temp_recipients_file)
         /\ fs[items[k].temp_recipients_file].data = << <<"a","g","e","1">> >>

\* the remembered recipients and the settings file are the same after a step
RememberedKept ==
    /\ gui'.recipients_keys = gui.recipients_keys
    /\ gui'.settings = gui.settings

\* C32: from the start of a batch to the end of _on_finished, whatever the
\* outcome, and in a Clear State step, recipients_keys and the settings file
\* do not change.
C32_BatchKeepsRememberedKeys ==
    [][/\ gui.running => RememberedKept
       /\ (~gui.clear_disabled /\ gui' = _reset_state_ui(gui, FALSE)) =>
             RememberedKept
      ]_vars

\* _on_finished has reset the window after a batch with a failed item, and
\* the two remembered keys are still there
C32_Witness ==
    /\ ~gui.running
    /\ pc = "done"
    /\ LastEvent.b > 0
    /\ LastEvent.a < LastEvent.b
    /\ gui.target_mode = "file"
    /\ gui.recipients_keys = <<KeyCmt, KeyPub>>
    /\ gui.settings = SavedSettings(<<KeyCmt, KeyPub>>, TRUE)

\* C33: in a batch whose pre-processing succeeded, every pass of the per-file
\* loop either adds one to success_count or emits one error signal, not both
\* and not neither; so the error signals number the items done minus
\* success_count, and total_files - success_count when finished is emitted.
C33_SuccessOrOneError ==
    /\ [][(pc = "loop" /\ Len(items') = Len(items) + 1) =>
            \/ /\ success_count' = success_count + 1
               /\ Len(ErrorEvents') = Len(ErrorEvents)
            \/ /\ success_count' = success_count
               /\ Len(ErrorEvents') = Len(ErrorEvents) + 1
         ]_vars
    /\ []((pc \in {"loop", "cleanup", "done"} /\ ~preFailed) =>
             /\ Len(ErrorEvents) = Len(items) - success_count
             /\ pc = "done" =>
                   Len(ErrorEvents) = LastEvent.b - LastEvent.a)

\* a finished batch of two items, one counted and one reported
C33_Witness ==
    /\ pc = "done"
    /\ ~preFailed
    /\ LastEvent.b = 2
    /\ LastEvent.a = 1
    /\ Len(ErrorEvents) = 1
    /\ items[1].tool = "ok"
    /\ items[2].raised

\* C34 (as claimed): in every state of the window the drop target is in key
\* mode exactly when _key_pending is true.
C34_KeyModeIffPending ==
    (gui.target_mode = "key") <=> gui.key_pending

\* a window that awaits keys has its drop target in key mode, so that the
\* next drop reaches the key handler
C34_PendingImpliesKeyMode ==
    gui.key_pending => gui.target_mode = "key"

\* a drop made in a state that awaits keys is never taken as files to process
C34_PendingDropNotTakenAsFiles ==
    [][(gui.key_pending /\ gui'.dropped # gui.dropped) =>
          gui'.verdict # "accepted"]_vars

\* C35 (as claimed): the path the output of a decrypt item ends up under
\* differs from the input path and does not end in ".age" in any case.
C35_DecryptedNameDiffers ==
    mode = "decrypt" =>
        \A k \in ItemIds :
            (/\ EndsAgeAnyCase(items[k].input)
             /\ items[k].tool = "ok"
             /\ ~items[k].raised
             /\ items[k].out # NoPath) =>
                /\ items[k].out # items[k].input
                /\ ~EndsAgeAnyCase(items[k].out)

\* the same for the inputs whose suffix is the lower-case ".age"
C35_DecryptedNameDiffersLowerCase ==
    mode = "decrypt" =>
        \A k \in ItemIds :
            (/\ EndsWith(items[k].input.name, AGE)
             /\ items[k].tool = "ok"
             /\ ~items[k].raised
             /\ items[k].out # NoPath) =>
                /\ items[k].out # items[k].input
                /\ ~EndsAgeAnyCase(items[k].out)

\* the three widgets _start_process disables are enabled
WidgetsEnabled ==
    /\ ~gui.drop_disabled
    /\ ~gui.clear_disabled
    /\ ~gui.clear_keys_disabled

\* C36: a started batch leads to the emission of finished, and to a window
\* whose drop target and two clear buttons are enabled again, whatever fails.
C36_BatchEndsAndUnlocks ==
    /\ (gui.running /\ pc # "done") ~> (pc = "done" /\ IsFinished(LastEvent))
    /\ (gui.running /\ ~WidgetsEnabled) ~> (~gui.running /\ WidgetsEnabled)

\* _on_finished has run after a batch whose pre-processing failed
C36_Witness ==
    /\ ~gui.running
    /\ WidgetsEnabled
    /\ pc = "done"
    /\ preFailed
    /\ IsFinished(LastEvent)
    /\ LastEvent.b = 0

\* C37: every worker the window has started was given a non-empty file list,
\* a non-empty key list and the mode encrypt or decrypt; none of its items
\* fails for want of keys, and the per-file loop never runs with a zero total.
C37_WorkerGivenFilesKeysMode ==
    pc # "idle" =>
        /\ files_to_process # <<>>
        /\ recipients_keys # <<>>
        /\ mode \in {"encrypt", "decrypt"}
        /\ mode = gui.current_action_mode \/ ~gui.running
        /\ \A k \in ItemIds :
             items[k].msg \notin {"No recipients.", "No identity."}
        /\ pc = "loop" => total_files > 0

\* a worker started from remembered keys, without a key drop
C37_Witness ==
    /\ gui.running
    /\ pc = "loop"
    /\ mode = "encrypt"
    /\ ~gui.key_pending
    /\ gui.target_mode # "key"
    /\ recipients_keys = gui.recipients_keys
    /\ files_to_process = gui.files_to_process

\* the fields of the window a Clear Keys that does nothing must leave alone
KeyFields(g) ==
    <<g.recipients_keys, g.keys, g.files_to_process, g.key_pending,
      g.current_action_mode, g.settings>>

AskedPaths ==
    DOMAIN fs \cup {NaturalTarget(q) : q \in {FileRAge, FileTAge, FileUAge, FileNAge}}

\* the extension of a file name: from its last dot, when that dot is not
\* among the leading ones
ExtensionOf(n) ==
    IF \E i \in 2..Len(n) : n[i] = "." /\ \E j \in 1..(i - 1) : n[j] # "."
    THEN LET i == CHOOSE j \in 2..Len(n) :
                    n[j] = "." /\ \A m \in (j + 1)..Len(n) : n[m] # "."
         IN  IF \E j \in 1..(i - 1) : n[j] # "."
             THEN SubSeq(n, i, Len(n)) ELSE <<>>
    ELSE <<>>

\* C39: _find_unique_filename returns a free path unchanged; for a path that
\* exists its loop ends, at a path of the same directory and extension at
\* which nothing exists (in yubiage_ui, the variant that has the function,
\* whenever no batch runs).
C39_UniqueNameIsFree ==
    (variant = "yubiage_ui" /\ pc \in {"idle", "done"}) =>
        \A p \in AskedPaths :
            \E r \in {_find_unique_filename(fs, p)} :
                IF ~Exists(fs, p) THEN r = p
                ELSE /\ r # p
                     /\ ~Exists(fs, r)
                     /\ Dirname(r) = Dirname(p)
                     /\ ExtensionOf(r.name) = ExtensionOf(p.name)

\* after a decrypt of r.txt.age next to r.txt came out as "r (1).txt", the
\* next free name for r.txt is "r (2).txt"
C39_Witness ==
    /\ variant = "yubiage_ui"
    /\ pc = "done"
    /\ Exists(fs, FileR)
    /\ Exists(fs, Path(W, <<"r"," ","(","1",")",".","t","x","t">>))
    /\ _find_unique_filename(fs, FileR)
          = Path(W, <<"r"," ","(","2",")",".","t","x","t">>)
    /\ _find_unique_filename(fs, NaturalTarget(FileTAge)) = NaturalTarget(FileTAge)

====
